---------------------------- MODULE Spec2Model ----------------------------
(***************************************************************************)
(* The planner's task store (lib/taskStore), its undo stack and the part   *)
(* of the storage adapter (lib/storage) that the store calls.              *)
(*                                                                         *)
(* Every exported store function is asynchronous.  Its code up to the      *)
(* first suspension runs in one turn of the event loop (one action here),  *)
(* the adapter's write is a second step, and the code after the await is   *)
(* a third.  Calls that are in flight are kept in the queue `calls`.       *)
(***************************************************************************)
EXTENDS Integers, Sequences, FiniteSets, TLC

(***************************************************************************)
(* Bounds of the model.                                                    *)
(***************************************************************************)
MaxIds == 2          \* task ids that exist in a run (seeded + created)
MaxSeed == 1         \* tasks already persisted when the page is opened
MaxCalls == 4        \* store calls issued in a run
MaxInFlight == 2     \* store calls that overlap in time
MaxFaults == 1       \* storage requests that fail in a run
MaxPomodoros == 2    \* store calls the timer places in a run
MaxDeep == 52        \* store mutations issued in a bounded-history run
DeepVaried == 1      \* leading calls of a bounded-history run that are arbitrary

(***************************************************************************)
(* Program constants.                                                      *)
(***************************************************************************)
MAX_UNDO_STACK == 50
CURRENT_SCHEMA_VERSION == 1
POMODORO_DURATION == 25 * 60
BREAK_DURATION == 5 * 60

VARIABLES
    tasks,          \* taskStore: the tasks signal (in-memory collection)
    loading,        \* taskStore: the loading signal
    undoStack,      \* taskStore: undoStack
    db,             \* storage: TRUE when the IDBDatabase handle is set
    storageEngine,  \* storage: "indexeddb" | "localstorage"
    idbTasks,       \* IndexedDB object store "tasks": id -> record
    lsTasks,        \* localStorage item "planner-tasks": the parsed array
    idbMeta,        \* IndexedDB object store "metadata": the record, or null
    lsMeta,         \* localStorage item "planner-meta": the parsed record, or null
    idbAvailable,   \* environment: typeof indexedDB !== 'undefined'
    clock,          \* environment: the wall clock, one tick per store call, from 1
    nextId,         \* environment: the next id uuidv4() hands out
    faults,         \* environment: storage requests that have failed
    calls,          \* store calls in flight, in the order they were issued
    initPc,         \* position of initStore: "start" | "opened" | "done"
    done,           \* history: the last two completed calls, newest first
    run,            \* history: the current run of mutations and undos
    replayed,       \* history: the undo records replayed so far
    groups,         \* the last result of groupTasksByUrgency(tasks()), or null
    idbTheme,       \* theme: the value stored in IndexedDB "settings", or null
    lsTheme,        \* theme: the localStorage item "zenplan_theme", or null
    themeDone,      \* history: the last two theme calls, newest first
    timeLeft,       \* PomodoroTimer: the timeLeft signal, in seconds
    isRunning,      \* PomodoroTimer: the isRunning signal
    isBreak,        \* PomodoroTimer: the isBreak signal
    interval,       \* PomodoroTimer: the interval handle, or undefined
    intervals,      \* environment: the intervals set and not cleared
    completing,     \* handleTimerComplete calls suspended at their await
    timerLog        \* history: countdowns that reached zero, by kind

vars == <<tasks, loading, undoStack, db, storageEngine, idbTasks, lsTasks,
          idbMeta, lsMeta, idbAvailable, clock, nextId, faults, calls, initPc, done, run,
          replayed, groups, idbTheme, lsTheme, themeDone, timeLeft, isRunning,
          isBreak, interval, intervals, completing, timerLog>>

storeVars == <<tasks, loading, undoStack>>
metaVars == <<idbMeta, lsMeta>>
adapterVars == <<db, storageEngine, idbTasks, lsTasks, idbMeta, lsMeta>>
histVars == <<done, run, replayed>>
themeVars == <<idbTheme, lsTheme, themeDone>>
pageVars == <<groups, themeVars>>
timerVars == <<timeLeft, isRunning, isBreak, interval, intervals, completing,
               timerLog>>

(***************************************************************************)
(* Values.  A nullable field is <<>> (null) or <<v>>.                      *)
(***************************************************************************)
Null == <<>>
Some(v) == <<v>>
IsNull(x) == x = <<>>

Ids == 1..MaxIds

Range(s) == {s[i] : i \in DOMAIN s}

Max(S) == CHOOSE m \in S : \A x \in S : x <= m

\* Intl.DateTimeFormat().resolvedOptions().timeZone
getUserTimeZone == "America/New_York"

(***************************************************************************)
(* A task persisted by an earlier session (at time 0, before this session's *)
(* clock starts): created by createTask, every second one completed by     *)
(* toggleTaskCompletion.                                                   *)
(***************************************************************************)
SeedTask(i) ==
    [id |-> i, title |-> "a", createdAt |-> 0, updatedAt |-> 0,
     timeZone |-> getUserTimeZone, pomodoroCount |-> 0,
     completed |-> (i = 2), completedAt |-> IF i = 2 THEN Some(0) ELSE Null,
     order |-> i]

SeedTasks(n) == [i \in 1..n |-> SeedTask(i)]

\* The metadata record written at `now`.
Metadata(now) ==
    [schemaVersion |-> CURRENT_SCHEMA_VERSION, lastModified |-> now]

(***************************************************************************)
(* Storage adapter (lib/storage).                                          *)
(***************************************************************************)
\* The records of the IndexedDB object store, in key order.
RECURSIVE IdbGetAll(_, _)
IdbGetAll(store, from) ==
    IF \A k \in DOMAIN store : k < from THEN <<>>
    ELSE LET k == CHOOSE x \in DOMAIN store :
                      x >= from /\ \A y \in DOMAIN store : y >= from => x <= y
         IN  <<store[k]>> \o IdbGetAll(store, k + 1)

\* getAllTasks(): the selected engine's records.
getAllTasks ==
    IF storageEngine = "localstorage" THEN lsTasks
    ELSE IF ~db THEN <<>>
    ELSE IdbGetAll(idbTasks, 1)

\* findIndex(t => t.id === id): 0 when there is none.
findIndex(ts, id) ==
    IF \E i \in DOMAIN ts : ts[i].id = id
    THEN CHOOSE i \in DOMAIN ts :
             ts[i].id = id /\ \A j \in DOMAIN ts : ts[j].id = id => i <= j
    ELSE 0

\* filter(t => t.id !== id)
filterOut(ts, id) == SelectSeq(ts, LAMBDA t : t.id # id)

\* saveTask on localStorage: upsert into the array read at the call's start.
lsSave(read, task) ==
    LET index == findIndex(read, task.id)
    IN  IF index > 0 THEN [read EXCEPT ![index] = task]
        ELSE Append(read, task)

\* deleteTask on localStorage.
lsDelete(read, id) == filterOut(read, id)

\* store.put(task) on IndexedDB (keyPath id).
idbPut(store, task) ==
    [k \in DOMAIN store \cup {task.id} |->
        IF k = task.id THEN task ELSE store[k]]

\* store.delete(id) on IndexedDB.
idbDelete(store, id) == [k \in DOMAIN store \ {id} |-> store[k]]

(***************************************************************************)
(* Task store (lib/taskStore).                                             *)
(***************************************************************************)
\* Math.max(...currentTasks.map(t => t.order)), 0 for an empty collection.
maxOrder(currentTasks) ==
    IF Len(currentTasks) > 0
    THEN Max({currentTasks[i].order : i \in DOMAIN currentTasks})
    ELSE 0

\* data.title || 'Untitled Task'
titleOf(data) ==
    IF "title" \in DOMAIN data /\ data.title # "" THEN data.title
    ELSE "Untitled Task"

\* A createTask that spreads the caller's data over the fields it sets.
newTaskSpread(data, id, now, currentTasks) ==
    LET task == [id |-> id, title |-> titleOf(data), createdAt |-> now,
                 updatedAt |-> now, timeZone |-> getUserTimeZone,
                 pomodoroCount |-> 0, completed |-> FALSE,
                 completedAt |-> Null,
                 order |-> maxOrder(currentTasks) + 1]
    IN  [f \in DOMAIN task |->
            IF f \in DOMAIN data \ {"title"} THEN data[f] ELSE task[f]]

\* The task createTask builds from the caller's data.
newTask(data, id, now, currentTasks) ==
    [id |-> id, title |-> titleOf(data), createdAt |-> now, updatedAt |-> now,
     timeZone |-> getUserTimeZone, pomodoroCount |-> 0,
     completed |-> FALSE, completedAt |-> Null,
     order |-> maxOrder(currentTasks) + 1]

\* { ...previousTask, ...updates, updatedAt: now }
mergeTask(previousTask, updates, now) ==
    [f \in DOMAIN previousTask \cup DOMAIN updates \cup {"updatedAt"} |->
        IF f = "updatedAt" THEN now
        ELSE IF f \in DOMAIN updates THEN updates[f]
        ELSE previousTask[f]]

\* toggleUpdates that stamps completedAt on every toggle and never clears it.
toggleUpdatesNeverCleared(task, now) ==
    [completed |-> ~task.completed, completedAt |-> Some(now)]

\* The updates toggleTaskCompletion passes to updateTask.
toggleUpdates(task, now) ==
    [completed |-> ~task.completed,
     completedAt |-> IF ~task.completed THEN Some(now) ELSE Null]

\* The updates incrementPomodoro passes to updateTask.
pomodoroUpdates(task) == [pomodoroCount |-> task.pomodoroCount + 1]

\* addToUndoStack with pop() in place of shift(): the newest record is dropped.
addToUndoStackPop(stack, action) ==
    LET pushed == Append(stack, action)
    IN  IF Len(pushed) > MAX_UNDO_STACK
        THEN SubSeq(pushed, 1, Len(pushed) - 1)
        ELSE pushed

\* addToUndoStack without the cap: nothing is ever dropped.
addToUndoStackUnbounded(stack, action) == Append(stack, action)

\* addToUndoStack(action): push, then shift the oldest out beyond the cap.
addToUndoStack(stack, action) ==
    LET pushed == Append(stack, action)
    IN  IF Len(pushed) > MAX_UNDO_STACK THEN Tail(pushed) ELSE pushed

\* canUndo()
canUndo == Len(undoStack) > 0

\* The undo records; `by` is the number of the call that pushed the record
\* (history only: the code never reads it).
CreateAction(task, by) ==
    [type |-> "create", task |-> task, previousTask |-> Null, by |-> by]
UpdateAction(task, previousTask, by) ==
    [type |-> "update", task |-> task, previousTask |-> Some(previousTask),
     by |-> by]
DeleteAction(task, by) ==
    [type |-> "delete", task |-> task, previousTask |-> Null, by |-> by]

(***************************************************************************)
(* Inputs of the calls.                                                    *)
(***************************************************************************)
\* Partial<Task> given to createTask.
CreateInputs == {[title |-> "a"]}

\* Partial<Task> given to updateTask: the mutable fields of a task.
Patches == {[title |-> "b"], [completed |-> TRUE]}

Mutations == {"create", "update", "delete", "toggle", "increment"}

(***************************************************************************)
(* Calls in flight.                                                        *)
(***************************************************************************)
\* A call that has run up to its await of saveTask / deleteTask.  `during` is
\* history: the calls that were in flight when this one was issued.
Call(op, id, write, task, currentTasks, action) ==
    [cid |-> clock, op |-> op, id |-> id, write |-> write, task |-> task,
     currentTasks |-> currentTasks, action |-> action,
     lsRead |-> IF storageEngine = "localstorage" THEN lsTasks ELSE <<>>,
     phase |-> "pending", preStack |-> undoStack,
     prePersisted |-> getAllTasks,
     during |-> {calls[i].cid : i \in DOMAIN calls}]

\* What a completed call leaves in the history.
Summary(c, outcome) ==
    [cid |-> c.cid, op |-> c.op, id |-> c.id, outcome |-> outcome,
     pre |-> c.currentTasks, preStack |-> c.preStack,
     prePersisted |-> c.prePersisted, action |-> c.action,
     during |-> c.during]

\* A call that returns without reaching the adapter.
NoCall(op, id, outcome) ==
    [cid |-> clock, op |-> op, id |-> id, outcome |-> outcome,
     pre |-> tasks, preStack |-> undoStack, prePersisted |-> getAllTasks,
     action |-> Null, during |-> {calls[i].cid : i \in DOMAIN calls}]

Idle == Len(calls) = 0

\* The run of successful mutations followed by undos that `s` continues.
NextRun(s, after) ==
    IF s.op \in Mutations
    THEN IF s.outcome # "ok"
         THEN [base |-> after, first |-> after, nMut |-> 0, nUndo |-> 0,
               ok |-> FALSE]
         ELSE IF run.ok /\ run.nMut > 0 /\ run.nUndo = 0
         THEN [run EXCEPT !.nMut = @ + 1]
         ELSE [base |-> s.pre, first |-> after, nMut |-> 1, nUndo |-> 0,
               ok |-> TRUE]
    ELSE IF s.outcome \in {"ok", "empty"}
         THEN [run EXCEPT !.nUndo = @ + 1]
         ELSE [run EXCEPT !.ok = FALSE]

Complete(s, after) ==
    /\ done' = SubSeq(<<s>> \o done, 1, IF Len(done) = 0 THEN 1 ELSE 2)
    /\ run' = NextRun(s, after)

(***************************************************************************)
(* Initial state: the page has been opened, nothing has run yet.           *)
(***************************************************************************)
\* No theme has been stored or asked for.
themeUnset ==
    /\ idbTheme = Null
    /\ lsTheme = Null
    /\ themeDone = <<>>

\* PomodoroTimer as it is mounted.
timerMounted ==
    /\ timeLeft = POMODORO_DURATION
    /\ isRunning = FALSE
    /\ isBreak = FALSE
    /\ interval = Null
    /\ intervals = {}
    /\ completing = {}
    /\ timerLog = [focus |-> 0, break |-> 0]

Init ==
    /\ themeUnset
    /\ timerMounted
    /\ tasks = <<>>
    /\ loading = TRUE
    /\ undoStack = <<>>
    /\ db = FALSE
    /\ storageEngine = "indexeddb"
    /\ idbAvailable \in BOOLEAN
    /\ \E n \in 0..MaxSeed :
          /\ nextId = n + 1
          /\ idbTasks = IF idbAvailable THEN SeedTasks(n) ELSE <<>>
          /\ lsTasks = IF idbAvailable THEN <<>> ELSE SeedTasks(n)
          /\ idbMeta = IF idbAvailable /\ n > 0 THEN Some(Metadata(0)) ELSE Null
          /\ lsMeta = IF ~idbAvailable /\ n > 0 THEN Some(Metadata(0)) ELSE Null
    /\ clock = 1
    /\ faults = 0
    /\ calls = <<>>
    /\ initPc = "start"
    /\ done = <<>>
    /\ run = [base |-> <<>>, first |-> <<>>, nMut |-> 0, nUndo |-> 0,
              ok |-> TRUE]
    /\ replayed = <<>>
    /\ groups = Null


(***************************************************************************)
(* initStore: await initDB(); await getAllTasks(); setTasks; finally the   *)
(* loading flag is cleared.                                                *)
(***************************************************************************)
\* initDB() when indexedDB is missing, or when the open request succeeds.
initDB ==
    /\ initPc = "start"
    /\ initPc' = "opened"
    /\ IF ~idbAvailable
       THEN /\ storageEngine' = "localstorage"
            /\ db' = db
       ELSE /\ db' = TRUE
            /\ storageEngine' = "indexeddb"
    /\ UNCHANGED <<storeVars, idbTasks, lsTasks, metaVars, idbAvailable,
                   pageVars, timerVars, clock, nextId, faults, calls,
                   histVars>>

\* initDB() when the open request fires onerror: fall back to localStorage.
initDBOpenError ==
    /\ initPc = "start"
    /\ idbAvailable
    /\ faults < MaxFaults
    /\ faults' = faults + 1
    /\ initPc' = "opened"
    /\ storageEngine' = "localstorage"
    /\ UNCHANGED <<storeVars, db, idbTasks, lsTasks, metaVars, idbAvailable,
                   pageVars, timerVars, clock, nextId, calls, histVars>>

\* The rest of initStore when getAllTasks() resolves.
initStore ==
    /\ initPc = "opened"
    /\ initPc' = "done"
    /\ tasks' = getAllTasks
    /\ loading' = FALSE
    /\ UNCHANGED <<undoStack, adapterVars, idbAvailable, pageVars, timerVars,
                   clock, nextId, faults, calls, histVars>>

\* initStore without its finally block: a read error leaves the flag set.
initStoreReadErrorNoFinally ==
    /\ initPc = "opened"
    /\ storageEngine = "indexeddb"
    /\ faults < MaxFaults
    /\ faults' = faults + 1
    /\ initPc' = "done"
    /\ UNCHANGED <<storeVars, adapterVars, idbAvailable, pageVars, timerVars,
                   clock, nextId, calls, histVars>>

\* The rest of initStore when getAllTasks() rejects (an IndexedDB read error):
\* the catch logs it, the finally clears the flag.
initStoreReadError ==
    /\ initPc = "opened"
    /\ storageEngine = "indexeddb"
    /\ faults < MaxFaults
    /\ faults' = faults + 1
    /\ initPc' = "done"
    /\ loading' = FALSE
    /\ UNCHANGED <<tasks, undoStack, adapterVars, idbAvailable, pageVars,
                   timerVars, clock, nextId, calls, histVars>>

(***************************************************************************)
(* The store's calls, up to their await of the adapter.                    *)
(***************************************************************************)
\* A call was issued: it returned at once (summary s) or is now in flight.
Returned(s) ==
    /\ Complete(s, tasks)
    /\ UNCHANGED <<calls, replayed>>

InFlight(c) ==
    /\ calls' = Append(calls, c)
    /\ UNCHANGED histVars

createTask(data) ==
    /\ nextId <= MaxIds
    /\ LET currentTasks == tasks
           task == newTask(data, nextId, clock, currentTasks)
       IN  InFlight(Call("create", task.id, "save", task, currentTasks,
                         CreateAction(task, clock)))
    /\ nextId' = nextId + 1
    /\ clock' = clock + 1
    /\ UNCHANGED <<storeVars, adapterVars, idbAvailable, pageVars, timerVars,
                   faults, initPc>>

\* updateTask that throws for an id it does not find.
updateTaskAsThrows(op, id, updates) ==
    LET currentTasks == tasks
        index == findIndex(currentTasks, id)
    IN  IF index = 0
        THEN Returned(NoCall(op, id, "rejected"))
        ELSE LET previousTask == currentTasks[index]
                 updatedTask == mergeTask(previousTask, updates, clock)
             IN  InFlight(Call(op, id, "save", updatedTask, currentTasks,
                               UpdateAction(updatedTask, previousTask, clock)))

\* updateTask(id, updates), reached as op "update", "toggle" or "increment".
updateTaskAs(op, id, updates) ==
    LET currentTasks == tasks
        index == findIndex(currentTasks, id)
    IN  IF index = 0
        THEN Returned(NoCall(op, id, "notfound"))
        ELSE LET previousTask == currentTasks[index]
                 updatedTask == mergeTask(previousTask, updates, clock)
             IN  InFlight(Call(op, id, "save", updatedTask, currentTasks,
                               UpdateAction(updatedTask, previousTask, clock)))

updateTask(id, updates) ==
    /\ updateTaskAs("update", id, updates)
    /\ clock' = clock + 1
    /\ UNCHANGED <<storeVars, adapterVars, idbAvailable, pageVars, timerVars,
                   nextId, faults, initPc>>

removeTask(id) ==
    /\ LET currentTasks == tasks
           index == findIndex(currentTasks, id)
       IN  IF index = 0
           THEN Returned(NoCall("delete", id, "notfound"))
           ELSE InFlight(Call("delete", id, "delete", currentTasks[index],
                              currentTasks,
                              DeleteAction(currentTasks[index], clock)))
    /\ clock' = clock + 1
    /\ UNCHANGED <<storeVars, adapterVars, idbAvailable, pageVars, timerVars,
                   nextId, faults, initPc>>

toggleTaskCompletion(id) ==
    /\ LET index == findIndex(tasks, id)
       IN  IF index = 0
           THEN Returned(NoCall("toggle", id, "notfound"))
           ELSE updateTaskAs("toggle", id, toggleUpdates(tasks[index], clock))
    /\ clock' = clock + 1
    /\ UNCHANGED <<storeVars, adapterVars, idbAvailable, pageVars, timerVars,
                   nextId, faults, initPc>>

\* incrementPomodoro(id) up to its await, whoever called it.
incrementPomodoroCall(id) ==
    /\ LET index == findIndex(tasks, id)
       IN  IF index = 0
           THEN Returned(NoCall("increment", id, "notfound"))
           ELSE updateTaskAs("increment", id, pomodoroUpdates(tasks[index]))
    /\ clock' = clock + 1
    /\ UNCHANGED <<storeVars, adapterVars, idbAvailable, pageVars, nextId,
                   faults, initPc>>

incrementPomodoro(id) ==
    /\ incrementPomodoroCall(id)
    /\ UNCHANGED timerVars

\* pop() replaced by a read of the top record: the record stays on the stack.
poppedPeek(stack) == stack

\* undoStack.pop()
popped(stack) == SubSeq(stack, 1, Len(stack) - 1)

\* The adapter call undo makes for the record it popped.  Every update record
\* carries its previousTask (updateTask), so the last branch is the delete one.
undoCall(action, currentTasks) ==
    IF action.type = "create"
    THEN Call("undo", action.task.id, "delete", action.task, currentTasks,
              action)
    ELSE IF action.type = "update" /\ ~IsNull(action.previousTask)
    THEN Call("undo", action.task.id, "save", action.previousTask[1],
              currentTasks, action)
    ELSE Call("undo", action.task.id, "save", action.task, currentTasks,
              action)

undo ==
    /\ IF ~canUndo
       THEN /\ Returned(NoCall("undo", 0, "empty"))
            /\ undoStack' = undoStack
       ELSE LET action == undoStack[Len(undoStack)]
                currentTasks == tasks
            IN  /\ undoStack' = popped(undoStack)
                /\ calls' = Append(calls, undoCall(action, currentTasks))
                /\ replayed' = Append(replayed, action.by)
                /\ UNCHANGED <<done, run>>
    /\ clock' = clock + 1
    /\ UNCHANGED <<tasks, loading, adapterVars, idbAvailable, pageVars,
                   timerVars, nextId, faults, initPc>>

(***************************************************************************)
(* The adapter's write of a call in flight.  Requests are served in the    *)
(* order they were placed.                                                 *)
(***************************************************************************)
\* Requests served newest first.
NextWriteNewestFirst ==
    IF \E i \in DOMAIN calls : calls[i].phase = "pending"
    THEN CHOOSE i \in DOMAIN calls :
             /\ calls[i].phase = "pending"
             /\ \A j \in DOMAIN calls : calls[j].phase = "pending" => i >= j
    ELSE 0

\* The position of the call whose write is served next (0: none).
NextWrite ==
    IF \E i \in DOMAIN calls : calls[i].phase = "pending"
    THEN CHOOSE i \in DOMAIN calls :
             /\ calls[i].phase = "pending"
             /\ \A j \in DOMAIN calls : calls[j].phase = "pending" => i <= j
    ELSE 0

\* saveTask / deleteTask writing the records of the selected engine.
written(c) ==
    IF storageEngine = "localstorage"
    THEN /\ lsTasks' = IF c.write = "save" THEN lsSave(c.lsRead, c.task)
                       ELSE lsDelete(c.lsRead, c.task.id)
         /\ idbTasks' = idbTasks
    ELSE /\ idbTasks' = IF c.write = "save" THEN idbPut(idbTasks, c.task)
                        ELSE idbDelete(idbTasks, c.task.id)
         /\ lsTasks' = lsTasks

\* updateMetadata(): a fresh metadata record in the selected engine.
updateMetadata ==
    IF storageEngine = "localstorage"
    THEN /\ lsMeta' = Some(Metadata(clock))
         /\ idbMeta' = idbMeta
    ELSE IF ~db THEN UNCHANGED metaVars
    ELSE /\ idbMeta' = Some(Metadata(clock))
         /\ lsMeta' = lsMeta

\* The records and the metadata are written: the adapter's promise resolves.
adapterWrite ==
    /\ NextWrite > 0
    /\ written(calls[NextWrite])
    /\ updateMetadata
    /\ calls' = [calls EXCEPT ![NextWrite].phase = "written"]
    /\ UNCHANGED <<storeVars, db, storageEngine, idbAvailable, pageVars,
                   timerVars, clock, nextId, faults, initPc, histVars>>

\* The write of the records fails (setItem throws, the request fires
\* onerror): nothing is written and the adapter's promise rejects.
adapterWriteError ==
    /\ NextWrite > 0
    /\ faults < MaxFaults
    /\ faults' = faults + 1
    /\ calls' = [calls EXCEPT ![NextWrite].phase = "rejected"]
    /\ UNCHANGED <<storeVars, adapterVars, idbAvailable, pageVars, timerVars,
                   clock, nextId, initPc, histVars>>

\* The records are written and updateMetadata() then fails.  On localStorage
\* the adapter's promise rejects; on IndexedDB the rejection is lost in the
\* async onsuccess handler and resolve() is never called.
adapterMetadataError ==
    /\ NextWrite > 0
    /\ faults < MaxFaults
    /\ faults' = faults + 1
    /\ written(calls[NextWrite])
    /\ calls' = [calls EXCEPT ![NextWrite].phase =
                    IF storageEngine = "localstorage" THEN "rejected"
                    ELSE "hung"]
    /\ UNCHANGED <<storeVars, db, storageEngine, metaVars, idbAvailable,
                   pageVars, timerVars, clock, nextId, initPc, histVars>>

(***************************************************************************)
(* The store's code after the await.                                       *)
(***************************************************************************)
RemoveAt(s, i) == SubSeq(s, 1, i - 1) \o SubSeq(s, i + 1, Len(s))

\* The position of the resolved call that resumes next (0: none).
NextResume ==
    IF \E i \in DOMAIN calls : calls[i].phase = "written"
    THEN CHOOSE i \in DOMAIN calls :
             /\ calls[i].phase = "written"
             /\ \A j \in DOMAIN calls : calls[j].phase = "written" => i <= j
    ELSE 0

\* undo that puts back the record's task instead of its previousTask.
undoTasksRestoresNew(action, currentTasks) ==
    IF action.type = "create"
    THEN filterOut(currentTasks, action.task.id)
    ELSE IF action.type = "update"
    THEN [currentTasks EXCEPT
              ![findIndex(currentTasks, action.task.id)] = action.task]
    ELSE Append(currentTasks, action.task)

\* setTasks(...) of undo, for the record it popped.
undoTasks(action, currentTasks) ==
    IF action.type = "create"
    THEN filterOut(currentTasks, action.task.id)
    ELSE IF action.type = "update" /\ ~IsNull(action.previousTask)
    THEN LET index == findIndex(currentTasks, action.previousTask[1].id)
         IN  IF index > 0
             THEN [currentTasks EXCEPT ![index] = action.previousTask[1]]
             ELSE tasks
    ELSE Append(currentTasks, action.task)

\* setTasks(...) of a resumed call.
resumedTasks(c) ==
    IF c.op = "create" THEN Append(c.currentTasks, c.task)
    ELSE IF c.op = "delete" THEN filterOut(c.currentTasks, c.id)
    ELSE IF c.op = "undo" THEN undoTasks(c.action, c.currentTasks)
    ELSE [c.currentTasks EXCEPT ![findIndex(c.currentTasks, c.id)] = c.task]

\* undo that records its own inverse, as a redo would need.
resumedStackRedo(c) == addToUndoStack(undoStack, c.action)

\* The undo stack after a resumed call.
resumedStack(c) ==
    IF c.op = "undo" THEN undoStack ELSE addToUndoStack(undoStack, c.action)

\* handleTimerComplete after its `await incrementPomodoro(...)`: the call
\* cid returned (settled) or threw.  Any other call leaves the timer alone.
timerContinue(cid, settled) ==
    IF cid \in completing
    THEN /\ completing' = completing \ {cid}
         /\ isBreak' = IF settled THEN TRUE ELSE isBreak
         /\ timeLeft' = IF settled THEN BREAK_DURATION ELSE timeLeft
         /\ UNCHANGED <<isRunning, interval, intervals, timerLog>>
    ELSE UNCHANGED timerVars

\* The adapter's promise resolved: the call updates the store and returns.
resume ==
    /\ NextResume > 0
    /\ LET c == calls[NextResume]
       IN  /\ tasks' = resumedTasks(c)
           /\ undoStack' = resumedStack(c)
           /\ Complete(Summary(c, "ok"), resumedTasks(c))
           /\ timerContinue(c.cid, TRUE)
    /\ calls' = RemoveAt(calls, NextResume)
    /\ UNCHANGED <<loading, adapterVars, idbAvailable, pageVars, clock,
                   nextId, faults, initPc, replayed>>

\* The adapter's promise rejected: the call throws to its caller.
reject ==
    \E i \in DOMAIN calls :
        /\ calls[i].phase = "rejected"
        /\ Complete(Summary(calls[i], "rejected"), tasks)
        /\ timerContinue(calls[i].cid, FALSE)
        /\ calls' = RemoveAt(calls, i)
        /\ UNCHANGED <<storeVars, adapterVars, idbAvailable, pageVars, clock,
                       nextId, faults, initPc, replayed>>

(***************************************************************************)
(* Specifications.                                                         *)
(***************************************************************************)
\* A caller may issue a call while fewer than n are in flight.
CanIssue(n) == initPc = "done" /\ clock <= MaxCalls /\ Len(calls) < n

Startup == initDB \/ initDBOpenError \/ initStore \/ initStoreReadError

Storage == adapterWrite \/ adapterWriteError \/ adapterMetadataError

\* Calls may overlap in time; the storage requests succeed.
Next ==
    \/ initDB
    \/ initStore
    \/ CanIssue(MaxInFlight) /\ \E data \in CreateInputs : createTask(data)
    \/ CanIssue(MaxInFlight) /\ \E id \in Ids, p \in Patches : updateTask(id, p)
    \/ CanIssue(MaxInFlight) /\ \E id \in Ids : removeTask(id)
    \/ CanIssue(MaxInFlight) /\ \E id \in Ids : toggleTaskCompletion(id)
    \/ CanIssue(MaxInFlight) /\ \E id \in Ids : incrementPomodoro(id)
    \/ CanIssue(MaxInFlight) /\ undo
    \/ adapterWrite
    \/ resume

Spec == Init /\ [][Next]_vars

\* Every call is awaited before the next one is issued; a storage request
\* may fail.
NextSeq ==
    \/ Startup
    \/ CanIssue(1) /\ \E data \in CreateInputs : createTask(data)
    \/ CanIssue(1) /\ \E id \in Ids, p \in Patches : updateTask(id, p)
    \/ CanIssue(1) /\ \E id \in Ids : removeTask(id)
    \/ CanIssue(1) /\ \E id \in Ids : toggleTaskCompletion(id)
    \/ CanIssue(1) /\ \E id \in Ids : incrementPomodoro(id)
    \/ CanIssue(1) /\ undo
    \/ Storage
    \/ resume
    \/ reject

SpecSeq == Init /\ [][NextSeq]_vars

\* Awaited calls without storage failures, where updateTask is also given
\* the id and timeZone fields that Partial<Task> admits.
FramePatches == Patches \cup {[timeZone |-> "UTC"], [id |-> MaxIds + 1]}

\* Partial<Task> given to createTask, also with fields createTask sets
\* itself.
FrameInputs ==
    CreateInputs
        \cup {[id |-> 1, order |-> 7, completed |-> TRUE, pomodoroCount |-> 3,
                timeZone |-> "UTC"]}

NextFrame ==
    \/ initDB
    \/ initStore
    \/ CanIssue(1) /\ \E data \in FrameInputs : createTask(data)
    \/ CanIssue(1) /\ \E id \in Ids, p \in FramePatches : updateTask(id, p)
    \/ CanIssue(1) /\ \E id \in Ids : toggleTaskCompletion(id)
    \/ CanIssue(1) /\ \E id \in Ids : incrementPomodoro(id)
    \/ CanIssue(1) /\ undo
    \/ adapterWrite
    \/ resume

SpecFrame == Init /\ [][NextFrame]_vars

\* The same, where the promises initStore awaits (the open request, the read
\* request) do settle.
SpecSeqFair == SpecSeq /\ WF_vars(Startup)

\* Ctrl/Cmd+Z calls undo() without awaiting it: an undo may be issued while
\* earlier undos are in flight.
CanUndoAgain ==
    /\ initPc = "done"
    /\ clock <= MaxCalls
    /\ Len(calls) < MaxInFlight
    /\ \A i \in DOMAIN calls : calls[i].op = "undo"

\* Mutations are awaited one by one, undo() calls may overlap; the storage
\* requests succeed.
NextKeys ==
    \/ initDB
    \/ initStore
    \/ CanIssue(1) /\ \E data \in CreateInputs : createTask(data)
    \/ CanIssue(1) /\ \E id \in Ids, p \in Patches : updateTask(id, p)
    \/ CanIssue(1) /\ \E id \in Ids : removeTask(id)
    \/ CanIssue(1) /\ \E id \in Ids : toggleTaskCompletion(id)
    \/ CanIssue(1) /\ \E id \in Ids : incrementPomodoro(id)
    \/ CanUndoAgain /\ undo
    \/ adapterWrite
    \/ resume

SpecKeys == Init /\ [][NextKeys]_vars

(***************************************************************************)
(* A bounded-history run: awaited calls, no storage failure, up to MaxDeep *)
(* mutations and then only undos.  The first DeepVaried calls are any      *)
(* call; the later mutations are incrementPomodoro on the first task.      *)
(***************************************************************************)
CanMutateDeep == initPc = "done" /\ Idle /\ clock <= MaxDeep /\ run.nUndo = 0

CanVaryDeep == CanMutateDeep /\ clock <= DeepVaried

CanUndoDeep == initPc = "done" /\ Idle /\ run.nUndo <= run.nMut

NextDeep ==
    \/ initDB
    \/ initStore
    \/ CanVaryDeep /\ \E data \in CreateInputs : createTask(data)
    \/ CanVaryDeep /\ \E id \in Ids, p \in Patches : updateTask(id, p)
    \/ CanVaryDeep /\ \E id \in Ids : removeTask(id)
    \/ CanVaryDeep /\ \E id \in Ids : toggleTaskCompletion(id)
    \/ CanMutateDeep /\ incrementPomodoro(1)
    \/ CanUndoDeep /\ undo
    \/ adapterWrite
    \/ resume

SpecDeep == Init /\ [][NextDeep]_vars

(***************************************************************************)
(* Properties.                                                             *)
(***************************************************************************)
\* The same tasks, field by field, whatever their position.
SameTasks(a, b) == Len(a) = Len(b) /\ Range(a) = Range(b)

\* The last completed call, when there is one and nothing is in flight.
LastCall(ops, outcome) ==
    /\ Idle
    /\ Len(done) > 0
    /\ done[1].op \in ops
    /\ done[1].outcome = outcome

\* A run of n successful mutations followed by k undo() calls has ended.
RunEnded(n, k) == Idle /\ run.ok /\ run.nMut = n /\ run.nUndo = k

C4_StackBounded ==
    /\ Len(undoStack) <= MAX_UNDO_STACK
    /\ (LastCall(Mutations, "ok") /\ Len(done[1].preStack) = MAX_UNDO_STACK)
       => undoStack = Append(Tail(done[1].preStack), done[1].action)

C4_Witness ==
    /\ LastCall(Mutations, "ok")
    /\ Len(done[1].preStack) = MAX_UNDO_STACK
    /\ Len(undoStack) = MAX_UNDO_STACK

\* C5: after MAX_UNDO_STACK + 1 successful mutations, the first
\* MAX_UNDO_STACK undo() calls bring back the collection left by the oldest
\* mutation and empty the stack; the next undo() finds the stack empty and
\* changes nothing, so the oldest mutation's effect stays in the collection
\* and in storage.
C5_OldestIrreversible ==
    /\ RunEnded(MAX_UNDO_STACK + 1, MAX_UNDO_STACK)
       => /\ undoStack = <<>>
          /\ SameTasks(tasks, run.first)
    /\ RunEnded(MAX_UNDO_STACK + 1, MAX_UNDO_STACK + 1)
       => /\ done[1].outcome = "empty"
          /\ tasks = done[1].pre
          /\ SameTasks(tasks, run.first)
          /\ SameTasks(getAllTasks, run.first)
          /\ ~SameTasks(tasks, run.base)

C5_Witness == RunEnded(MAX_UNDO_STACK + 1, MAX_UNDO_STACK + 1)

\* C2: with awaited calls, after a call has completed, every task of the
\* in-memory collection is in the persisted store with the same field
\* values (so initStore after a reload would load it).
C2_MemoryBackedByStorage ==
    LastCall(Mutations \cup {"undo"}, "ok")
        => \A i \in DOMAIN tasks : tasks[i] \in Range(getAllTasks)

\* C3: a failed adapter write during create, update or delete reaches the
\* caller as a rejection, and the collection and the undo stack are then as
\* they were before the call.
C3_WriteFailureLeavesStore ==
    /\ \A i \in DOMAIN calls :
           calls[i].op \in {"create", "update", "delete"}
               => calls[i].phase # "hung"
    /\ LastCall({"create", "update", "delete"}, "rejected")
           => /\ tasks = done[1].pre
              /\ undoStack = done[1].preStack

\* C6: undo() on a non-empty stack removes exactly the top record and pushes
\* nothing; undo() on an empty stack changes neither the stack, the
\* collection nor storage; two consecutive undo() calls replay the two
\* newest records, newest first.
C6_UndoWalksBack ==
    /\ LastCall({"undo"}, "empty")
           => /\ done[1].preStack = <<>>
              /\ undoStack = <<>>
              /\ tasks = done[1].pre
              /\ getAllTasks = done[1].prePersisted
    /\ (Idle /\ Len(done) > 0 /\ done[1].op = "undo"
             /\ done[1].outcome # "empty")
           => /\ Len(undoStack) = Len(done[1].preStack) - 1
              /\ undoStack = popped(done[1].preStack)
              /\ done[1].action = done[1].preStack[Len(done[1].preStack)]
    /\ (Idle /\ Len(done) = 2 /\ done[1].op = "undo" /\ done[2].op = "undo"
             /\ done[1].outcome # "empty")
           => LET before == done[2].preStack
              IN  /\ done[2].action = before[Len(before)]
                  /\ done[1].action = before[Len(before) - 1]
                  /\ Len(undoStack) = Len(before) - 2

C6_Witness ==
    /\ Idle
    /\ Len(done) = 2
    /\ done[1].op = "undo" /\ done[1].outcome = "ok"
    /\ done[2].op = "undo" /\ done[2].outcome = "ok"
    /\ done[1].action.type # done[2].action.type

\* C7: no undo record is replayed twice, whatever the interleaving of the
\* calls (a record is named by the call that pushed it).
C7_ReplayedAtMostOnce ==
    \A i, j \in DOMAIN replayed : i # j => replayed[i] # replayed[j]

C7_Witness ==
    /\ Len(calls) = 2
    /\ calls[1].op = "undo" /\ calls[1].phase = "pending"
    /\ calls[2].op = "undo" /\ calls[2].phase = "pending"

\* C8: no two tasks of the in-memory collection have the same id.
C8_UniqueIds ==
    \A i, j \in DOMAIN tasks : i # j => tasks[i].id # tasks[j].id

\* C9: every task of the in-memory collection is completed exactly when its
\* completedAt is set.
C9_CompletedIffCompletedAt ==
    \A i \in DOMAIN tasks : tasks[i].completed <=> ~IsNull(tasks[i].completedAt)

\* Two consecutive successful toggleTaskCompletion calls on the same task.
ToggledTwice ==
    /\ Idle
    /\ Len(done) = 2
    /\ done[1].op = "toggle" /\ done[1].outcome = "ok"
    /\ done[2].op = "toggle" /\ done[2].outcome = "ok"
    /\ done[1].id = done[2].id

\* The task with the id of the last completed call, in a collection.
Target(ts) == ts[findIndex(ts, done[1].id)]

\* C10 as stated: two consecutive toggles leave completed and completedAt as
\* they were before the first.
C10_ToggleTwiceRestores ==
    ToggledTwice
        => /\ Target(tasks).completed = Target(done[2].pre).completed
           /\ Target(tasks).completedAt = Target(done[2].pre).completedAt

\* C10 amended: two consecutive toggles leave completed as it was; completedAt
\* is null afterwards when the task started incomplete, and the time of the
\* second toggle when it started completed.
C10_ToggleTwiceRestoresFlag ==
    ToggledTwice
        => /\ Target(tasks).completed = Target(done[2].pre).completed
           /\ Target(tasks).completedAt =
                  IF Target(done[2].pre).completed THEN Some(done[1].cid)
                  ELSE Null

C10_Witness ==
    /\ ToggledTwice
    /\ Target(done[2].pre).completed
    /\ ~IsNull(Target(done[2].pre).completedAt)

\* The calls that go through updateTask.
Updates == {"update", "toggle", "increment"}

\* The last completed call named an id that the collection did not hold.
LastCallAbsent ==
    /\ Idle
    /\ Len(done) > 0
    /\ done[1].op \in Updates \cup {"delete"}
    /\ findIndex(done[1].pre, done[1].id) = 0

\* C11: update, delete, toggle and increment on an id that is not in the
\* collection return the not-found result (they do not throw), write nothing
\* to storage, push no undo record and leave the collection as it was.
C11_AbsentIdIsNoOp ==
    LastCallAbsent
        => /\ done[1].outcome = "notfound"
           /\ tasks = done[1].pre
           /\ undoStack = done[1].preStack
           /\ getAllTasks = done[1].prePersisted

C11_Witness ==
    /\ LastCallAbsent
    /\ done[1].op = "update"
    /\ Len(tasks) > 0
    /\ Len(undoStack) > 0

\* C12: the order values of the tasks in the collection are pairwise
\* distinct, and a task created later has the larger order.
C12_OrderDistinctIncreasing ==
    \A i, j \in DOMAIN tasks :
        /\ i # j => tasks[i].order # tasks[j].order
        /\ tasks[i].createdAt < tasks[j].createdAt
               => tasks[i].order < tasks[j].order

\* C13: when the adapter write of an undo() fails, the collection is as it
\* was before the call and the record being replayed is still on the stack.
C13_FailedUndoKeepsRecord ==
    LastCall({"undo"}, "rejected")
        => /\ tasks = done[1].pre
           /\ undoStack = done[1].preStack

\* Two calls of updateTask for the same id were in flight at once and both
\* have completed.
OverlappingUpdates ==
    /\ Idle
    /\ Len(done) = 2
    /\ done[1].op \in Updates /\ done[1].outcome = "ok"
    /\ done[2].op \in Updates /\ done[2].outcome = "ok"
    /\ done[1].id = done[2].id
    /\ \/ done[2].cid \in done[1].during
       \/ done[1].cid \in done[2].during

\* The record persisted under the id of the last completed call.
PersistedTarget == Target(getAllTasks)

\* C14: after two overlapping updates of one task, the in-memory entry is the
\* task built by the update whose write was served last (the later-issued
\* one: requests are served in order), and the persisted record equals it.
C14_LastWriteWins ==
    OverlappingUpdates
        => LET last == IF done[1].cid > done[2].cid THEN done[1] ELSE done[2]
           IN  /\ Target(tasks) = last.action.task
               /\ PersistedTarget = Target(tasks)

C14_Witness ==
    /\ OverlappingUpdates
    /\ done[1].op = "update"
    /\ done[2].op = "update"
    /\ done[1].action.task.title # done[2].action.task.title

(***************************************************************************)
(* Time and urgency (lib/dateUtils).                                       *)
(*                                                                         *)
(* An instant (a Date) is a number of ticks since the epoch, UTC.  A       *)
(* calendar date is a day number, a clock time 'HH:mm' the minute of the   *)
(* day.  A score is <<n>> with n a hundredth, or <<>> for Infinity.        *)
(***************************************************************************)
TicksPerMinute == 2  \* instants told apart within one minute
MaxList == 2         \* tasks handed to groupTasksByUrgency

MinutesPerDay == 24 * 60

\* Minutes east of UTC (standard time; daylight saving is not modelled).
OffsetMinutes(timeZone) == IF timeZone = "America/New_York" THEN -300 ELSE 0

\* parseISO / toDate of a string without offset: wall-clock minutes read in
\* the environment's zone.
parseLocalIn(wallMinutes, systemZone) ==
    (wallMinutes - OffsetMinutes(systemZone)) * TicksPerMinute

parseLocal(wallMinutes) == parseLocalIn(wallMinutes, getUserTimeZone)

\* date-fns-tz toZonedTime(date, timeZone): the Date whose local fields show
\* the wall clock of `timeZone` at `date`, in an environment whose zone is
\* `systemZone`.
toZonedTimeIn(date, timeZone, systemZone) ==
    date + (OffsetMinutes(timeZone) - OffsetMinutes(systemZone))
               * TicksPerMinute

toZonedTime(date, timeZone) == toZonedTimeIn(date, timeZone, getUserTimeZone)

\* `${date}T${time}:00`, or `${date}T00:00:00` without a time, in an
\* environment whose zone is `systemZone`.
combineDateAndTimeIn(date, time, timeZone, systemZone) ==
    LET dateTimeString ==
            date * MinutesPerDay + (IF IsNull(time) THEN 0 ELSE time[1])
    IN  toZonedTimeIn(parseLocalIn(dateTimeString, systemZone), timeZone,
                      systemZone)

combineDateAndTime(date, time, timeZone) ==
    combineDateAndTimeIn(date, time, timeZone, getUserTimeZone)

getTaskDueDate(task) ==
    IF IsNull(task.dueDate) THEN Null
    ELSE Some(combineDateAndTime(task.dueDate[1], task.dueTime,
                                 task.timeZone))

getTaskScheduledDate(task) ==
    IF IsNull(task.scheduledDate) THEN Null
    ELSE Some(combineDateAndTime(task.scheduledDate[1], task.scheduledTime,
                                 task.timeZone))

\* date-fns isPast(date): date < Date.now()
isPast(date, now) == date < now

\* The local calendar day (environment's zone) an instant falls on.
startOfDay(date) ==
    ((date \div TicksPerMinute) + OffsetMinutes(getUserTimeZone))
        \div MinutesPerDay

\* date-fns isToday(date): the same local calendar day as now.
isToday(date, now) == startOfDay(date) = startOfDay(now)

\* date-fns differenceInMinutes(dateLeft, dateRight): truncated toward zero.
differenceInMinutes(dateLeft, dateRight) ==
    IF dateLeft >= dateRight
    THEN (dateLeft - dateRight) \div TicksPerMinute
    ELSE -((dateRight - dateLeft) \div TicksPerMinute)

\* isTaskOverdue that counts the due instant itself as past.
isTaskOverdueAtDue(task, now) ==
    IF task.completed THEN FALSE
    ELSE LET dueDate == getTaskDueDate(task)
         IN  IF IsNull(dueDate) THEN FALSE ELSE dueDate[1] <= now

isTaskOverdue(task, now) ==
    IF task.completed THEN FALSE
    ELSE LET dueDate == getTaskDueDate(task)
         IN  IF IsNull(dueDate) THEN FALSE ELSE isPast(dueDate[1], now)

isTaskScheduledToday(task, now) ==
    LET scheduledDate == getTaskScheduledDate(task)
    IN  IF IsNull(scheduledDate) THEN FALSE
        ELSE isToday(scheduledDate[1], now)

Infinity == <<>>

\* priorityMultiplier that ignores the priority.
priorityMultiplierFlat(task) == 10

\* priorityMultiplier, in tenths.
priorityMultiplier(task) ==
    IF task.priority = Some("high") THEN 5
    ELSE IF task.priority = Some("low") THEN 15
    ELSE 10

\* typeMultiplier, in tenths.
typeMultiplier(task) == IF task.type = "homework" THEN 9 ELSE 11

\* getTaskUrgency(task), evaluated at `now`; finite scores in hundredths.
getTaskUrgency(task, now) ==
    IF task.completed THEN Infinity
    ELSE LET dueDate == getTaskDueDate(task)
         IN  IF IsNull(dueDate) THEN Infinity
             ELSE LET minutesUntilDue == differenceInMinutes(dueDate[1], now)
                  IN  IF minutesUntilDue < 0 THEN Some(minutesUntilDue * 100)
                      ELSE Some(minutesUntilDue * priorityMultiplier(task)
                                    * typeMultiplier(task))

\* bucketOf with the scheduled-today test ahead of the due test.
bucketOfTodayFirst(task, now) ==
    LET dueDate == getTaskDueDate(task)
        scheduledDate == getTaskScheduledDate(task)
    IN  IF task.completed THEN "none"
        ELSE IF ~IsNull(scheduledDate) /\ isToday(scheduledDate[1], now)
        THEN "today"
        ELSE IF ~IsNull(dueDate)
                /\ (isPast(dueDate[1], now) \/ isToday(dueDate[1], now))
        THEN "urgent"
        ELSE IF ~IsNull(dueDate)
                /\ differenceInMinutes(dueDate[1], now) < 7 * 24 * 60
        THEN "upcoming"
        ELSE "someday"

\* bucketOf with <= in the upcoming test.
bucketOfInclusive(task, now) ==
    LET dueDate == getTaskDueDate(task)
        scheduledDate == getTaskScheduledDate(task)
    IN  IF task.completed THEN "none"
        ELSE IF ~IsNull(dueDate)
                /\ (isPast(dueDate[1], now) \/ isToday(dueDate[1], now))
        THEN "urgent"
        ELSE IF ~IsNull(scheduledDate) /\ isToday(scheduledDate[1], now)
        THEN "today"
        ELSE IF ~IsNull(dueDate)
                /\ differenceInMinutes(dueDate[1], now) <= 7 * 24 * 60
        THEN "upcoming"
        ELSE "someday"

\* The bucket the loop of groupTasksByUrgency pushes a task to ("none" for a
\* completed task, which it skips).
bucketOf(task, now) ==
    LET dueDate == getTaskDueDate(task)
        scheduledDate == getTaskScheduledDate(task)
    IN  IF task.completed THEN "none"
        ELSE IF ~IsNull(dueDate)
                /\ (isPast(dueDate[1], now) \/ isToday(dueDate[1], now))
        THEN "urgent"
        ELSE IF ~IsNull(scheduledDate) /\ isToday(scheduledDate[1], now)
        THEN "today"
        ELSE IF ~IsNull(dueDate)
                /\ differenceInMinutes(dueDate[1], now) < 7 * 24 * 60
        THEN "upcoming"
        ELSE "someday"

\* The comparator with its operands swapped.
urgencyBeforeSwapped(a, b, now) ==
    LET x == getTaskUrgency(b, now)
        y == getTaskUrgency(a, now)
    IN  x # Infinity /\ (y = Infinity \/ x[1] < y[1])

\* The comparator (a, b) => getTaskUrgency(a) - getTaskUrgency(b) is
\* negative; Infinity - Infinity is NaN, which sort() takes as 0.
urgencyBefore(a, b, now) ==
    LET x == getTaskUrgency(a, now)
        y == getTaskUrgency(b, now)
    IN  x # Infinity /\ (y = Infinity \/ x[1] < y[1])

\* The comparator (a, b) => a.order - b.order is negative.
orderBefore(a, b, now) == a.order < b.order

\* The comparator handed to sort puts a before b.
before(a, b, compareFn, now) ==
    IF compareFn = "urgency" THEN urgencyBefore(a, b, now)
    ELSE orderBefore(a, b, now)

\* A sort that leaves the list as it was pushed.
sortAsPushed(list, compareFn, now) == list

\* Array.prototype.sort (stable): each element goes after the elements that
\* the comparator does not put behind it.
RECURSIVE sort(_, _, _)
sort(list, compareFn, now) ==
    IF Len(list) <= 1 THEN list
    ELSE LET rest == sort(SubSeq(list, 1, Len(list) - 1), compareFn, now)
             x == list[Len(list)]
             keep == {i \in DOMAIN rest :
                         \A j \in i..Len(rest) :
                             before(x, rest[j], compareFn, now)}
             at == IF keep = {} THEN Len(rest) + 1
                   ELSE CHOOSE i \in keep : \A k \in keep : i <= k
         IN  SubSeq(rest, 1, at - 1) \o <<x>> \o SubSeq(rest, at, Len(rest))

\* A loop that does not skip completed tasks: they fall through to someday.
pushedWithCompleted(list, bucket, now) ==
    SelectSeq(list, LAMBDA task :
        \/ bucketOf(task, now) = bucket
        \/ bucket = "someday" /\ task.completed)

\* The tasks the loop pushes to a bucket, in input order.
pushed(list, bucket, now) ==
    SelectSeq(list, LAMBDA task : bucketOf(task, now) = bucket)

\* groupTasksByUrgency(tasks), evaluated at `now`.
groupsAt(list, now) ==
    [urgent |-> sort(pushed(list, "urgent", now), "urgency", now),
     today |-> sort(pushed(list, "today", now), "urgency", now),
     upcoming |-> sort(pushed(list, "upcoming", now), "urgency", now),
     someday |-> sort(pushed(list, "someday", now), "order", now)]

\* Planner's groupedTasks(): groupTasksByUrgency(tasks()) at the clock's time.
groupTasksByUrgency ==
    /\ IsNull(groups)
    /\ groups' = Some(groupsAt(tasks, clock))
    /\ UNCHANGED <<storeVars, adapterVars, idbAvailable, clock, nextId,
                   faults, calls, initPc, histVars, themeVars, timerVars>>

(***************************************************************************)
(* Inputs of the urgency engine.                                           *)
(***************************************************************************)
\* Evaluation instants: within the first and the last minute of local day 0.
ClockMinutes == {0, MinutesPerDay - 1}

Clocks ==
    {parseLocal(m) + tick : m \in ClockMinutes, tick \in 0..TicksPerMinute - 1}

Days == {-1, 0, 1, 7}

Times == {Null, Some(1), Some(MinutesPerDay - 2), Some(MinutesPerDay - 1)}

DueDates ==
    {[dueDate |-> Null, dueTime |-> Null]}
        \cup {[dueDate |-> Some(d), dueTime |-> t] : d \in Days, t \in Times}

ScheduledDates == {Null, Some(0)}

Priorities == {Null, Some("low"), Some("medium"), Some("high")}

TimeZones == {"America/New_York", "UTC"}

\* A task as the engine reads it.
PlanTask(id, due, scheduledDate, timeZone, priority, type, completed, order) ==
    [id |-> id, dueDate |-> due.dueDate, dueTime |-> due.dueTime,
     scheduledDate |-> scheduledDate, scheduledTime |-> Null,
     timeZone |-> timeZone, priority |-> priority, type |-> type,
     completed |-> completed, order |-> order]

\* The first task of a list: any combination of the fields.
FirstTasks(order) ==
    {PlanTask(1, due, s, z, p, ty, c, order) :
        due \in DueDates, s \in ScheduledDates, z \in TimeZones,
        p \in Priorities, ty \in {"homework", "life"}, c \in BOOLEAN}

\* Its companions: not completed, in the environment's zone, high priority.
OtherTasks(id, order) ==
    {PlanTask(id, due, Null, getUserTimeZone, p, "homework", FALSE, order) :
        due \in {[dueDate |-> Null, dueTime |-> Null],
                 [dueDate |-> Some(-1), dueTime |-> Some(MinutesPerDay - 1)],
                 [dueDate |-> Some(0), dueTime |-> Some(1)],
                 [dueDate |-> Some(0), dueTime |-> Some(MinutesPerDay - 2)],
                 [dueDate |-> Some(1), dueTime |-> Null]},
        p \in {Some("high")}}

\* Lists of n tasks whose order values are a permutation of 1..n.
RECURSIVE TaskLists(_)
TaskLists(n) ==
    IF n = 0 THEN {<<>>}
    ELSE IF n = 1 THEN {<<t>> : t \in FirstTasks(1)}
    ELSE LET shorter == TaskLists(n - 1)
         IN  {Append(l, t) : l \in shorter, t \in OtherTasks(n, n)}
                 \cup {Append([i \in DOMAIN l |->
                                  [l[i] EXCEPT !.order = @ + 1]], t) :
                          l \in shorter, t \in OtherTasks(n, 1)}

\* The page is loaded with some collection, at some instant.
InitUrgency ==
    /\ tasks \in UNION {TaskLists(n) : n \in 0..MaxList}
    /\ clock \in Clocks
    /\ groups = Null
    /\ themeUnset
    /\ timerMounted
    /\ loading = FALSE
    /\ undoStack = <<>>
    /\ db = TRUE
    /\ storageEngine = "indexeddb"
    /\ idbTasks = <<>>
    /\ lsTasks = <<>>
    /\ idbMeta = Null
    /\ lsMeta = Null
    /\ idbAvailable = TRUE
    /\ nextId = MaxList + 1
    /\ faults = 0
    /\ calls = <<>>
    /\ initPc = "done"
    /\ done = <<>>
    /\ run = [base |-> <<>>, first |-> <<>>, nMut |-> 0, nUndo |-> 0,
              ok |-> TRUE]
    /\ replayed = <<>>

NextUrgency == groupTasksByUrgency

SpecUrgency == InitUrgency /\ [][NextUrgency]_vars

(***************************************************************************)
(* A delete and its undo on a loaded collection, then the grouping the     *)
(* page renders: awaited calls, no storage failure.                        *)
(***************************************************************************)
\* The page is loaded with a full collection that storage holds too.
InitRestore ==
    /\ tasks \in {l \in TaskLists(MaxList) : ~l[1].completed}
    /\ clock \in Clocks
    /\ groups = Null
    /\ themeUnset
    /\ timerMounted
    /\ loading = FALSE
    /\ undoStack = <<>>
    /\ db = TRUE
    /\ storageEngine = "indexeddb"
    /\ idbTasks = tasks
    /\ lsTasks = <<>>
    /\ idbMeta = Null
    /\ lsMeta = Null
    /\ idbAvailable = TRUE
    /\ nextId = MaxList + 1
    /\ faults = 0
    /\ calls = <<>>
    /\ initPc = "done"
    /\ done = <<>>
    /\ run = [base |-> <<>>, first |-> <<>>, nMut |-> 0, nUndo |-> 0,
              ok |-> TRUE]
    /\ replayed = <<>>

\* Nothing has been called yet.
CanDelete == Idle /\ Len(done) = 0

\* The delete has returned.
CanUndoDelete == Idle /\ Len(done) = 1 /\ done[1].outcome = "ok"

\* The undo has returned.
Restored == Idle /\ Len(done) = 2 /\ done[1].op = "undo"

NextRestore ==
    \/ CanDelete /\ \E id \in 1..MaxList : removeTask(id)
    \/ CanUndoDelete /\ undo
    \/ adapterWrite
    \/ resume
    \/ Restored /\ groupTasksByUrgency

SpecRestore == InitRestore /\ [][NextRestore]_vars

(***************************************************************************)
(* The adapter called directly (lib/storage), one awaited call at a time,  *)
(* as the settings page, the export and import buttons and the adapter's   *)
(* tests call it.  A call is one step; `done` holds the last two calls.    *)
(***************************************************************************)
MaxAdapterCalls == 3   \* adapter calls in a run

\* The item "planner-tasks" after setItem(key, undefined): the text
\* "undefined", which JSON.parse rejects.
Unparseable == <<[text |-> "undefined"]>>

LsReadable == lsTasks # Unparseable

\* The outcomes indexedDB.open can have in initDB().
Opens ==
    IF ~idbAvailable THEN {"unavailable"}
    ELSE {"success"} \cup (IF faults < MaxFaults THEN {"error"} ELSE {})

\* db and storageEngine after initDB().
opened(open) ==
    IF open = "success" THEN [db |-> TRUE, storageEngine |-> "indexeddb"]
    ELSE [db |-> db, storageEngine |-> "localstorage"]

\* `if (!db) await initDB();`
LazyOpens == IF db THEN {"none"} ELSE Opens

lazilyOpened(open) ==
    IF open = "none" THEN [db |-> db, storageEngine |-> storageEngine]
    ELSE opened(open)

\* The outcomes a storage request can have: it succeeds, or it fails while
\* failures are left and indexedDB.open has not failed in the same call.
Requests(open) ==
    {"ok"} \cup (IF faults < MaxFaults /\ open # "error" THEN {"error"}
                 ELSE {})

\* The adapter's state, for the history.
AdapterState ==
    [db |-> db, storageEngine |-> storageEngine, idbTasks |-> idbTasks,
     lsTasks |-> lsTasks, idbMeta |-> idbMeta, lsMeta |-> lsMeta,
     selected |-> initPc # "start"]

\* An adapter call has ended with `outcome` ("ok", "rejected" or, for a
\* promise that never settles, "hung").
AdapterReturn(op, arg, outcome, result, open, failed) ==
    /\ done' = SubSeq(<<[op |-> op, arg |-> arg, outcome |-> outcome,
                         result |-> result, open |-> open,
                         failed |-> failed, pre |-> AdapterState]>> \o done,
                      1, IF Len(done) = 0 THEN 1 ELSE 2)
    /\ clock' = clock + 1
    /\ faults' = faults + (IF open = "error" \/ failed THEN 1 ELSE 0)
    /\ initPc' = IF open = "none" THEN initPc ELSE "opened"
    /\ db' = lazilyOpened(open).db
    /\ storageEngine' = lazilyOpened(open).storageEngine
    /\ UNCHANGED <<storeVars, idbAvailable, nextId, calls, run, replayed,
                   pageVars, timerVars>>

\* initDB()
callInitDB ==
    \E open \in Opens :
        /\ AdapterReturn("initDB", Null, "ok", Null, open, FALSE)
        /\ UNCHANGED <<idbTasks, lsTasks, metaVars>>

\* What getAllTasks() resolves to when it takes the IndexedDB branch and
\* `if (!db) await initDB()` has the outcome `open`.
idbRead(open) ==
    IF ~lazilyOpened(open).db THEN <<>> ELSE IdbGetAll(idbTasks, 1)

\* getAllTasks()
callGetAllTasks ==
    /\ IF storageEngine = "localstorage"
       THEN IF LsReadable
            THEN AdapterReturn("getAll", Null, "ok", lsTasks, "none", FALSE)
            ELSE AdapterReturn("getAll", Null, "rejected", Null, "none",
                               FALSE)
       ELSE \E open \in LazyOpens :
                AdapterReturn("getAll", Null, "ok", idbRead(open), open,
                              FALSE)
    /\ UNCHANGED <<idbTasks, lsTasks, metaVars>>

\* saveTask(task) (write = "save") and deleteTask(task.id) (write =
\* "delete").  The records are written, then updateMetadata() runs.
callWrite(write, task) ==
    LET op == IF write = "save" THEN "save" ELSE "delete"
        arg == IF write = "save" THEN task ELSE task.id
    IN  IF storageEngine = "localstorage"
        THEN IF ~LsReadable
             THEN /\ AdapterReturn(op, arg, "rejected", Null, "none", FALSE)
                  /\ UNCHANGED <<idbTasks, lsTasks, metaVars>>
             ELSE \E records, metadata \in Requests("none") :
                      /\ ~(records = "error" /\ metadata = "error")
                      /\ AdapterReturn(op, arg,
                             IF records = "ok" /\ metadata = "ok" THEN "ok"
                             ELSE "rejected",
                             Null, "none",
                             records = "error" \/ metadata = "error")
                      /\ lsTasks' =
                             IF records = "error" THEN lsTasks
                             ELSE IF write = "save" THEN lsSave(lsTasks, task)
                             ELSE lsDelete(lsTasks, task.id)
                      /\ lsMeta' = IF records = "ok" /\ metadata = "ok"
                                   THEN Some(Metadata(clock)) ELSE lsMeta
                      /\ UNCHANGED <<idbTasks, idbMeta>>
        ELSE \E open \in LazyOpens :
                 IF ~lazilyOpened(open).db
                 THEN /\ AdapterReturn(op, arg, "rejected", Null, open, FALSE)
                      /\ UNCHANGED <<idbTasks, lsTasks, metaVars>>
                 ELSE \E records, metadata \in Requests(open) :
                          /\ ~(records = "error" /\ metadata = "error")
                          /\ AdapterReturn(op, arg,
                                 IF records = "error" THEN "rejected"
                                 ELSE IF metadata = "error" THEN "hung"
                                 ELSE "ok",
                                 Null, open,
                                 records = "error" \/ metadata = "error")
                          /\ idbTasks' =
                                 IF records = "error" THEN idbTasks
                                 ELSE IF write = "save"
                                 THEN idbPut(idbTasks, task)
                                 ELSE idbDelete(idbTasks, task.id)
                          /\ idbMeta' = IF records = "ok" /\ metadata = "ok"
                                        THEN Some(Metadata(clock))
                                        ELSE idbMeta
                          /\ UNCHANGED <<lsTasks, lsMeta>>

callSaveTask(task) == callWrite("save", task)

callDeleteTask(id) == callWrite("delete", [id |-> id])

\* getMetadata() once the engine is `engine`: the stored record, or a fresh
\* default.
getMetadata(engine) ==
    LET stored == IF engine = "localstorage" THEN lsMeta ELSE idbMeta
    IN  IF IsNull(stored) THEN Metadata(clock) ELSE stored[1]

\* A document as importData receives it: each field present or missing.
Document(docTasks, metadata) == [tasks |-> docTasks, metadata |-> metadata]

\* exportData(): getAllTasks(), then getMetadata().
callExportData ==
    /\ IF storageEngine = "localstorage"
       THEN IF LsReadable
            THEN AdapterReturn("export", Null, "ok",
                     Document(Some(lsTasks),
                              Some(getMetadata("localstorage"))),
                     "none", FALSE)
            ELSE AdapterReturn("export", Null, "rejected", Null, "none",
                               FALSE)
       ELSE \E open \in LazyOpens :
                AdapterReturn("export", Null, "ok",
                    Document(Some(idbRead(open)),
                             Some(getMetadata(
                                 lazilyOpened(open).storageEngine))),
                    open, FALSE)
    /\ UNCHANGED <<idbTasks, lsTasks, metaVars>>

\* The object store after clear() and an add() of each task.
added(docTasks) ==
    [k \in {docTasks[i].id : i \in DOMAIN docTasks} |->
        docTasks[findIndex(docTasks, k)]]

\* importData(data).  On localStorage two setItem calls; on IndexedDB one
\* transaction that clears the store, adds the tasks and puts the metadata:
\* a failed request aborts it, while an exception thrown between requests
\* (iterating a missing tasks field) leaves it to commit what was done.
callImportData(data) ==
    IF storageEngine = "localstorage"
    THEN \E records, metadata \in Requests("none") :
             /\ ~(records = "error" /\ metadata = "error")
             /\ AdapterReturn("import", data,
                    IF records = "ok" /\ metadata = "ok" THEN "ok"
                    ELSE "rejected",
                    Null, "none", records = "error" \/ metadata = "error")
             /\ lsTasks' = IF records = "error" THEN lsTasks
                           ELSE IF IsNull(data.tasks) THEN Unparseable
                           ELSE data.tasks[1]
             /\ lsMeta' = IF records = "ok" /\ metadata = "ok"
                             /\ ~IsNull(data.metadata)
                          THEN data.metadata ELSE lsMeta
             /\ UNCHANGED <<idbTasks, idbMeta>>
    ELSE \E open \in LazyOpens :
             IF ~lazilyOpened(open).db
             THEN /\ AdapterReturn("import", data, "rejected", Null, open,
                                   FALSE)
                  /\ UNCHANGED <<idbTasks, lsTasks, metaVars>>
             ELSE IF IsNull(data.tasks)
             THEN /\ AdapterReturn("import", data, "rejected", Null, open,
                                   FALSE)
                  /\ idbTasks' = <<>>
                  /\ UNCHANGED <<lsTasks, metaVars>>
             ELSE \E request \in Requests(open) :
                      /\ AdapterReturn("import", data,
                             IF request = "ok" THEN "ok" ELSE "rejected",
                             Null, open, request = "error")
                      /\ idbTasks' = IF request = "ok"
                                     THEN added(data.tasks[1]) ELSE idbTasks
                      /\ idbMeta' = IF request = "ok"
                                       /\ ~IsNull(data.metadata)
                                    THEN data.metadata ELSE idbMeta
                      /\ UNCHANGED <<lsTasks, lsMeta>>

(***************************************************************************)
(* Inputs of the adapter calls.                                            *)
(***************************************************************************)
\* Tasks handed to saveTask: each id, as first stored or retitled.
SaveInputs ==
    {[SeedTask(i) EXCEPT !.title = t] : i \in Ids, t \in {"a", "b"}}

\* A backup made elsewhere.
ForeignDocument ==
    Document(Some(<<[SeedTask(MaxIds) EXCEPT !.title = "b"]>>),
             Some(Metadata(0)))

\* A JSON document without a tasks field.
MalformedDocument == Document(Null, Some(Metadata(0)))

\* The documents the import can be given: the last export, unmodified,
\* another backup, or a malformed one.
Documents ==
    {ForeignDocument, MalformedDocument}
        \cup (IF Len(done) > 0 /\ done[1].op = "export"
                   /\ done[1].outcome = "ok"
              THEN {done[1].result} ELSE {})

\* The previous call has settled and the run may go on.
CanCall ==
    /\ clock <= MaxAdapterCalls
    /\ Len(done) > 0 => done[1].outcome # "hung"

NextAdapter ==
    \/ CanCall /\ callInitDB
    \/ CanCall /\ callGetAllTasks
    \/ CanCall /\ \E task \in SaveInputs : callSaveTask(task)
    \/ CanCall /\ \E id \in Ids : callDeleteTask(id)
    \/ CanCall /\ callExportData
    \/ CanCall /\ \E data \in Documents : callImportData(data)

SpecAdapter == Init /\ [][NextAdapter]_vars

(***************************************************************************)
(* The theme preference (lib/theme.ts).  The settings database            *)
(* "ZenPlanSettings" and the localStorage item "zenplan_theme" are apart   *)
(* from the task storage.  A call runs alone; what the browser does to    *)
(* its storage requests is an input of the call.                           *)
(***************************************************************************)
Themes == {"light", "dark", "auto"}

\* What a settings record or the localStorage item can hold: a theme, or a
\* string that is none.
StoredThemes == Themes \cup {"blue"}

isValidTheme(value) == value \in {"light", "dark", "auto"}

\* The history keeps the last two theme calls, newest first.
themeReturned(call) ==
    themeDone' = IF themeDone = <<>> THEN <<call>>
                 ELSE <<call, themeDone[1]>>

\* saveTheme(theme); setItem threw or not (lsOk), the open and the put of
\* the settings record both succeeded or one of them failed (idbOk).
saveTheme(theme, lsOk, idbOk) ==
    /\ lsTheme' = IF lsOk THEN Some(theme) ELSE lsTheme
    /\ idbTheme' = IF idbOk THEN Some(theme) ELSE idbTheme
    /\ themeReturned([op |-> "save", theme |-> theme, ls |-> lsOk,
                      idb |-> idbOk])
    /\ UNCHANGED <<storeVars, adapterVars, idbAvailable, clock, nextId,
                   faults, calls, initPc, histVars, groups, timerVars>>

\* What loadTheme() returns.
loadedTheme(idbOk, lsOk) ==
    IF idbOk /\ ~IsNull(idbTheme) /\ isValidTheme(idbTheme[1])
    THEN idbTheme[1]
    ELSE IF lsOk /\ ~IsNull(lsTheme) /\ isValidTheme(lsTheme[1])
    THEN lsTheme[1]
    ELSE "auto"

\* loadTheme(); the open and the get of the settings record succeeded
\* (idbOk), getItem did not throw (lsOk).
loadTheme(idbOk, lsOk) ==
    /\ themeReturned([op |-> "load", theme |-> loadedTheme(idbOk, lsOk),
                      ls |-> lsOk, idb |-> idbOk])
    /\ UNCHANGED <<storeVars, adapterVars, idbAvailable, clock, nextId,
                   faults, calls, initPc, histVars, groups, idbTheme,
                   lsTheme, timerVars>>

\* The page has not started; the two places hold what earlier visits left.
InitTheme ==
    /\ idbTheme \in {Null} \cup {Some(v) : v \in StoredThemes}
    /\ lsTheme \in {Null} \cup {Some(v) : v \in StoredThemes}
    /\ themeDone = <<>>
    /\ timerMounted
    /\ tasks = <<>>
    /\ clock = 1
    /\ groups = Null
    /\ loading = TRUE
    /\ undoStack = <<>>
    /\ db = FALSE
    /\ storageEngine = "indexeddb"
    /\ idbTasks = <<>>
    /\ lsTasks = <<>>
    /\ idbMeta = Null
    /\ lsMeta = Null
    /\ idbAvailable = TRUE
    /\ nextId = 1
    /\ faults = 0
    /\ calls = <<>>
    /\ initPc = "start"
    /\ done = <<>>
    /\ run = [base |-> <<>>, first |-> <<>>, nMut |-> 0, nUndo |-> 0,
              ok |-> TRUE]
    /\ replayed = <<>>

NextTheme ==
    \/ \E theme \in Themes, lsOk \in BOOLEAN, idbOk \in BOOLEAN :
           saveTheme(theme, lsOk, idbOk)
    \/ \E idbOk \in BOOLEAN, lsOk \in BOOLEAN : loadTheme(idbOk, lsOk)

SpecTheme == InitTheme /\ [][NextTheme]_vars

(***************************************************************************)
(* PomodoroTimer (components/PomodoroTimer.tsx), opened for one task.      *)
(* A second of the countdown is one run of the interval's callback.        *)
(***************************************************************************)
\* props.task.id
timerTaskId == SeedTask(1).id

\* What the timer's own handlers leave alone, the store call of
\* handleTimerComplete apart.
timerOnly ==
    UNCHANGED <<storeVars, adapterVars, idbAvailable, clock, nextId, faults,
                calls, initPc, histVars, pageVars>>

\* window.setInterval returns a handle that no live interval has.
setInterval ==
    CHOOSE n \in 1..(Cardinality(intervals) + 1) : n \notin intervals

\* startTimer without `if (interval) return`.
startTimerUnguarded ==
    /\ isRunning' = TRUE
    /\ interval' = Some(setInterval)
    /\ intervals' = intervals \cup {setInterval}
    /\ UNCHANGED <<timeLeft, isBreak, completing, timerLog>>
    /\ timerOnly

\* startTimer(); with an interval set it returns at once.
startTimer ==
    /\ IsNull(interval)
    /\ isRunning' = TRUE
    /\ interval' = Some(setInterval)
    /\ intervals' = intervals \cup {setInterval}
    /\ UNCHANGED <<timeLeft, isBreak, completing, timerLog>>
    /\ timerOnly

\* The body of pauseTimer(): clearInterval(interval), interval = undefined,
\* setIsRunning(false).
paused ==
    /\ intervals' = IF IsNull(interval) THEN intervals
                    ELSE intervals \ {interval[1]}
    /\ interval' = Null
    /\ isRunning' = FALSE

pauseTimer ==
    /\ paused
    /\ UNCHANGED <<timeLeft, isBreak, completing, timerLog>>
    /\ timerOnly

resetTimer ==
    /\ paused
    /\ timeLeft' = IF isBreak THEN BREAK_DURATION ELSE POMODORO_DURATION
    /\ UNCHANGED <<isBreak, completing, timerLog>>
    /\ timerOnly

\* A countdown of the given kind went from one second to zero.
logged(kind) ==
    timerLog' = IF timeLeft = 1 THEN [timerLog EXCEPT ![kind] = @ + 1]
                ELSE timerLog

\* handleTimerComplete(), called from the updater of setTimeLeft, which then
\* returns 0.  In a break it runs to its end inside the updater, and what it
\* set timeLeft to is overwritten by the 0.  Otherwise it runs up to its
\* await; for a task the store does not hold incrementPomodoro returns
\* without a storage request, and the rest runs once the updater is done.
handleTimerComplete ==
    /\ paused
    /\ IF isBreak
       THEN /\ isBreak' = FALSE
            /\ timeLeft' = 0
            /\ logged("break")
            /\ UNCHANGED completing
            /\ timerOnly
       ELSE /\ incrementPomodoroCall(timerTaskId)
            /\ logged("focus")
            /\ IF findIndex(tasks, timerTaskId) = 0
               THEN /\ isBreak' = TRUE
                    /\ timeLeft' = BREAK_DURATION
                    /\ UNCHANGED completing
               ELSE /\ isBreak' = isBreak
                    /\ timeLeft' = 0
                    /\ completing' = completing \cup {clock}

\* The callback of a live interval:
\* setTimeLeft(prev => { if (prev <= 1) { handleTimerComplete(); return 0; }
\*                       return prev - 1; })
tick ==
    /\ intervals # {}
    /\ IF timeLeft <= 1
       THEN handleTimerComplete
       ELSE /\ timeLeft' = timeLeft - 1
            /\ UNCHANGED <<isRunning, isBreak, interval, intervals,
                           completing, timerLog>>
            /\ timerOnly

\* The page is loaded with one stored task, and the timer is opened for it.
InitTimer ==
    /\ idbAvailable \in BOOLEAN
    /\ tasks = SeedTasks(1)
    /\ idbTasks = IF idbAvailable THEN tasks ELSE <<>>
    /\ lsTasks = IF idbAvailable THEN <<>> ELSE tasks
    /\ idbMeta = IF idbAvailable THEN Some(Metadata(0)) ELSE Null
    /\ lsMeta = IF idbAvailable THEN Null ELSE Some(Metadata(0))
    /\ db = idbAvailable
    /\ storageEngine = IF idbAvailable THEN "indexeddb" ELSE "localstorage"
    /\ timerMounted
    /\ themeUnset
    /\ groups = Null
    /\ clock = 1
    /\ loading = FALSE
    /\ undoStack = <<>>
    /\ nextId = 2
    /\ faults = 0
    /\ calls = <<>>
    /\ initPc = "done"
    /\ done = <<>>
    /\ run = [base |-> <<>>, first |-> <<>>, nMut |-> 0, nUndo |-> 0,
              ok |-> TRUE]
    /\ replayed = <<>>

\* The callback may run unless it would place a store call beyond the
\* completions of a run.
CanTick ==
    \/ timeLeft > 1
    \/ isBreak
    \/ clock <= MaxPomodoros /\ Len(calls) < MaxInFlight

\* Clicks on Start, Pause and Reset, the passing seconds, and the store
\* call of handleTimerComplete; the storage requests succeed.
NextTimer ==
    \/ startTimer
    \/ pauseTimer
    \/ resetTimer
    \/ CanTick /\ tick
    \/ adapterWrite
    \/ resume

SpecTimer == InitTimer /\ [][NextTimer]_vars

(***************************************************************************)
(* Properties of the urgency engine.                                       *)
(***************************************************************************)
Buckets == {"urgent", "today", "upcoming", "someday"}

\* groupTasksByUrgency has returned.
Grouped == ~IsNull(groups)

\* The buckets that hold a task.
BucketsWith(task) == {b \in Buckets : task \in Range(groups[1][b])}

\* The position of a task in a bucket (0: not there).
Position(task, b) ==
    IF task \in Range(groups[1][b])
    THEN CHOOSE i \in DOMAIN groups[1][b] : groups[1][b][i] = task
    ELSE 0

\* The due instant of a task that has one.
Due(task) == getTaskDueDate(task)[1]

HasDue(task) == ~IsNull(getTaskDueDate(task))

\* C15: every non-completed task is in exactly one bucket, no completed task
\* is in any, and the bucket sizes sum to the number of non-completed tasks.
C15_BucketsPartition ==
    Grouped
        => /\ \A i \in DOMAIN tasks :
                  Cardinality(BucketsWith(tasks[i]))
                      = IF tasks[i].completed THEN 0 ELSE 1
           /\ Len(groups[1].urgent) + Len(groups[1].today)
                  + Len(groups[1].upcoming) + Len(groups[1].someday)
                  = Cardinality({i \in DOMAIN tasks : ~tasks[i].completed})

C15_Witness ==
    /\ Grouped
    /\ Len(tasks) = MaxList
    /\ tasks[1].completed
    /\ Len(groups[1].upcoming) = 1

\* C16: a non-completed task whose due instant is in the past or on today's
\* calendar date is in urgent and not in today, also when it is scheduled
\* for today.
C16_UrgentBeforeToday ==
    Grouped
        => \A i \in DOMAIN tasks :
               (/\ ~tasks[i].completed
                /\ HasDue(tasks[i])
                /\ \/ isPast(Due(tasks[i]), clock)
                   \/ isToday(Due(tasks[i]), clock))
                   => BucketsWith(tasks[i]) = {"urgent"}

C16_Witness ==
    /\ Grouped
    /\ Len(tasks) = 1
    /\ isTaskOverdue(tasks[1], clock)
    /\ isTaskScheduledToday(tasks[1], clock)
    /\ groups[1].urgent = tasks

\* C17: a non-completed task that is neither urgent nor scheduled for today
\* is in upcoming exactly when it has a due instant less than 7 * 24 * 60
\* whole minutes from now; otherwise (exactly 7 * 24 * 60 included) it is in
\* someday.
C17_UpcomingWithinSevenDays ==
    Grouped
        => \A i \in DOMAIN tasks :
               (/\ ~tasks[i].completed
                /\ "urgent" \notin BucketsWith(tasks[i])
                /\ ~isTaskScheduledToday(tasks[i], clock))
                   => LET near ==
                              /\ HasDue(tasks[i])
                              /\ differenceInMinutes(Due(tasks[i]), clock)
                                     < 7 * 24 * 60
                      IN  BucketsWith(tasks[i])
                              = IF near THEN {"upcoming"} ELSE {"someday"}

C17_Witness ==
    /\ Grouped
    /\ Len(tasks) = 1
    /\ HasDue(tasks[1])
    /\ differenceInMinutes(Due(tasks[1]), clock) = 7 * 24 * 60
    /\ groups[1].someday = tasks

\* Task i is overdue by one minute and task j is due in one minute.
OneMinuteEitherSide(i, j) ==
    /\ ~tasks[i].completed /\ ~tasks[j].completed
    /\ HasDue(tasks[i]) /\ HasDue(tasks[j])
    /\ Due(tasks[i]) = clock - TicksPerMinute
    /\ Due(tasks[j]) = clock + TicksPerMinute

\* Both tasks are in urgent, i before j.
UrgentInOrder(i, j) ==
    /\ Position(tasks[i], "urgent") > 0
    /\ Position(tasks[j], "urgent") > 0
    /\ Position(tasks[i], "urgent") < Position(tasks[j], "urgent")

\* C18 as stated: at any instant, a task overdue by one minute and a task due
\* in one minute are both in urgent, the overdue one first.
C18_OverdueAndDueSoonUrgent ==
    Grouped
        => \A i, j \in DOMAIN tasks :
               OneMinuteEitherSide(i, j) => UrgentInOrder(i, j)

\* C18 amended: that holds when the due-soon task's due instant is still on
\* today's calendar date; in the last minute of the day the due-soon task is
\* not in urgent.
C18_OverdueAndDueSoonUrgentSameDay ==
    Grouped
        => \A i, j \in DOMAIN tasks :
               OneMinuteEitherSide(i, j)
                   => IF isToday(Due(tasks[j]), clock)
                      THEN UrgentInOrder(i, j)
                      ELSE /\ Position(tasks[i], "urgent") > 0
                           /\ Position(tasks[j], "urgent") = 0

C18_Witness ==
    /\ Grouped
    /\ \E i, j \in DOMAIN tasks :
           /\ OneMinuteEitherSide(i, j)
           /\ i > j
           /\ UrgentInOrder(i, j)

\* The score of a task given another priority.
ScoreAs(task, priority) ==
    getTaskUrgency([task EXCEPT !.priority = Some(priority)], clock)

\* A finite score strictly below another score.
ScoreBelow(x, y) == x # Infinity /\ (y = Infinity \/ x[1] < y[1])

\* C19 as stated: with the same due instant, wherever it lies, the score of
\* a task with priority high is strictly less than with priority low.
C19_HighBelowLow ==
    Grouped
        => \A i \in DOMAIN tasks :
               (~tasks[i].completed /\ HasDue(tasks[i]))
                   => ScoreBelow(ScoreAs(tasks[i], "high"),
                                 ScoreAs(tasks[i], "low"))

\* C19 amended: the high-priority score is strictly less when the due instant
\* is at least one whole minute ahead, and equal to the low-priority score
\* when it is less than a minute ahead or in the past.
C19_HighBelowLowWhenAhead ==
    Grouped
        => \A i \in DOMAIN tasks :
               (~tasks[i].completed /\ HasDue(tasks[i]))
                   => IF differenceInMinutes(Due(tasks[i]), clock) > 0
                      THEN ScoreBelow(ScoreAs(tasks[i], "high"),
                                      ScoreAs(tasks[i], "low"))
                      ELSE ScoreAs(tasks[i], "high") = ScoreAs(tasks[i], "low")

C19_Witness ==
    /\ Grouped
    /\ Len(tasks) = 1
    /\ ~tasks[1].completed
    /\ HasDue(tasks[1])
    /\ differenceInMinutes(Due(tasks[1]), clock) = 1
    /\ tasks[1].priority = Some("high")

\* The score the formula gives, in hundredths.
FormulaScore(task) ==
    IF task.completed \/ ~HasDue(task) THEN Infinity
    ELSE LET m == differenceInMinutes(Due(task), clock)
             p == CASE task.priority = Some("high") -> 5
                    [] task.priority = Some("low") -> 15
                    [] OTHER -> 10
             k == IF task.type = "homework" THEN 9 ELSE 11
         IN  IF m < 0 THEN Some(m * 100) ELSE Some(m * p * k)

ScoresFollowFormula ==
    \A i \in DOMAIN tasks : getTaskUrgency(tasks[i], clock) = FormulaScore(tasks[i])

\* C20 as stated: the score follows the formula, and an overdue task scores
\* strictly below every task that is not overdue.
C20_ScoreFormulaOverdueFirst ==
    Grouped
        => /\ ScoresFollowFormula
           /\ \A i, j \in DOMAIN tasks :
                  (isTaskOverdue(tasks[i], clock)
                       /\ ~isTaskOverdue(tasks[j], clock))
                      => ScoreBelow(getTaskUrgency(tasks[i], clock),
                                    getTaskUrgency(tasks[j], clock))

\* C21: isTaskOverdue is false for a completed task and for a task without a
\* due date; otherwise it is true exactly when the due instant is strictly
\* before now.
C21_OverdueIffDuePast ==
    \A i \in DOMAIN tasks :
        isTaskOverdue(tasks[i], clock)
            = (/\ ~tasks[i].completed
               /\ HasDue(tasks[i])
               /\ Due(tasks[i]) < clock)

C21_Witness ==
    /\ Grouped
    /\ \E i \in DOMAIN tasks :
           /\ ~tasks[i].completed
           /\ HasDue(tasks[i])
           /\ Due(tasks[i]) = clock
           /\ ~isTaskOverdue(tasks[i], clock)
    /\ \E i \in DOMAIN tasks :
           /\ HasDue(tasks[i])
           /\ Due(tasks[i]) < clock
           /\ isTaskOverdue(tasks[i], clock)

\* A bucket is in non-decreasing score order, Infinity last.
ByScore(bucket) ==
    \A i, j \in DOMAIN bucket :
        i < j => ~ScoreBelow(getTaskUrgency(bucket[j], clock),
                             getTaskUrgency(bucket[i], clock))

\* A bucket is in non-decreasing order of the order field.
ByOrder(bucket) ==
    \A i, j \in DOMAIN bucket : i < j => bucket[i].order <= bucket[j].order

\* C22: urgent, today and upcoming are each in non-decreasing score order
\* with Infinity last, and someday is in non-decreasing order of the order
\* field.
C22_BucketsSorted ==
    Grouped
        => /\ ByScore(groups[1].urgent)
           /\ ByScore(groups[1].today)
           /\ ByScore(groups[1].upcoming)
           /\ ByOrder(groups[1].someday)

C22_Witness ==
    /\ Grouped
    /\ Len(tasks) = 2
    /\ groups[1].urgent = <<tasks[2], tasks[1]>>
    /\ ScoreBelow(getTaskUrgency(tasks[2], clock),
                  getTaskUrgency(tasks[1], clock))

\* The delete that the undo has reversed, and the task it deleted.
DeleteUndone ==
    /\ Restored
    /\ done[1].outcome = "ok"
    /\ done[2].op = "delete"
    /\ done[1].action = done[2].action

\* C23: after delete(id) and undo(), the task is back with its original
\* order value, appended at the end of the collection, and the grouping has
\* the same sequence of tasks in every bucket as before the delete.
C23_UndoDeleteKeepsGrouping ==
    (DeleteUndone /\ Grouped)
        => LET earlier == done[2].pre
               task == done[2].action.task
           IN  /\ tasks = Append(filterOut(earlier, task.id), task)
               /\ task \in Range(earlier)
               /\ groups[1] = groupsAt(earlier, clock)

\* The due instant a task resolves to where the environment's zone is z.
DueIn(task, z) ==
    combineDateAndTimeIn(task.dueDate[1], task.dueTime, task.timeZone, z)

\* The instant at which the wall clock of the task's own zone shows the
\* task's due date and time.
ZoneInstant(task) ==
    (task.dueDate[1] * MinutesPerDay
         + (IF IsNull(task.dueTime) THEN 0 ELSE task.dueTime[1])
         - OffsetMinutes(task.timeZone)) * TicksPerMinute

\* C24: the due instant of a task is the one its date and time denote in
\* the task's stored zone, whichever zone the evaluator runs in; the task is
\* not overdue before that instant and overdue after it.
C24_DueFromTaskZoneOnly ==
    \A i \in DOMAIN tasks :
        ~IsNull(tasks[i].dueDate)
            => /\ \A z \in TimeZones : DueIn(tasks[i], z) = ZoneInstant(tasks[i])
               /\ isTaskOverdue(tasks[i], clock)
                      = (~tasks[i].completed /\ ZoneInstant(tasks[i]) < clock)

(***************************************************************************)
(* Properties of the adapter.                                              *)
(***************************************************************************)
\* The last adapter call was `op` and it resolved.
LastAdapter(op) ==
    Len(done) > 0 /\ done[1].op = op /\ done[1].outcome = "ok"

\* The records that the engine now selected held in an earlier state.
StoredIn(state) ==
    IF storageEngine = "localstorage" THEN state.lsTasks
    ELSE IdbGetAll(state.idbTasks, 1)

\* The records with another id.
Others(records, id) ==
    {records[i] : i \in {j \in DOMAIN records : records[j].id # id}}

\* C25: after saveTask(task) resolves, getAllTasks() has exactly one record
\* with the task's id, equal to the task, the other records are unchanged
\* and the count grows only for a new id; after deleteTask(id) resolves there
\* is no record with that id and the other records are unchanged; and
\* deleteTask of an id that is not stored resolves, unless a storage request
\* fails.
C25_UpsertById ==
    /\ LastAdapter("save")
           => LET task == done[1].arg
                  was == StoredIn(done[1].pre)
              IN  /\ Cardinality({i \in DOMAIN getAllTasks :
                                     getAllTasks[i].id = task.id}) = 1
                  /\ task \in Range(getAllTasks)
                  /\ Others(getAllTasks, task.id) = Others(was, task.id)
                  /\ Len(getAllTasks)
                         = Len(was) + (IF findIndex(was, task.id) > 0 THEN 0
                                       ELSE 1)
    /\ LastAdapter("delete")
           => LET was == StoredIn(done[1].pre)
              IN  /\ findIndex(getAllTasks, done[1].arg) = 0
                  /\ Others(getAllTasks, done[1].arg)
                         = Others(was, done[1].arg)
                  /\ Len(getAllTasks)
                         = Len(was) - (IF findIndex(was, done[1].arg) > 0
                                       THEN 1 ELSE 0)
    /\ (/\ Len(done) > 0
        /\ done[1].op = "delete"
        /\ ~done[1].failed
        /\ done[1].pre.lsTasks # Unparseable
        /\ findIndex(done[1].pre.lsTasks, done[1].arg) = 0
        /\ done[1].arg \notin DOMAIN done[1].pre.idbTasks)
           => done[1].outcome = "ok"

\* The last two calls were exportData() and importData() of its result.
ImportedExport ==
    /\ Len(done) = 2
    /\ LastAdapter("import")
    /\ done[2].op = "export"
    /\ done[2].outcome = "ok"
    /\ done[1].arg = done[2].result

\* C26: importData of the unmodified result of exportData leaves
\* getAllTasks() with the set of tasks that was stored before the export, on
\* either engine and for any stored collection.
C26_ImportOfExportKeepsTasks ==
    ImportedExport => SameTasks(getAllTasks, StoredIn(done[2].pre))

\* The persisted tasks and metadata are those of an earlier state.
PersistedAsIn(state) ==
    /\ idbTasks = state.idbTasks
    /\ lsTasks = state.lsTasks
    /\ idbMeta = state.idbMeta
    /\ lsMeta = state.lsMeta

\* The last call was importData of a document that has its tasks.
ImportedSnapshot ==
    /\ Len(done) > 0
    /\ done[1].op = "import"
    /\ ~IsNull(done[1].arg.tasks)

\* C27: importData(snapshot) either resolves, and then getAllTasks() returns
\* exactly the snapshot's tasks and the stored metadata is the snapshot's, or
\* rejects, and then the persisted tasks and metadata are the previous ones.
C27_ImportAtomic ==
    ImportedSnapshot
        => IF done[1].outcome = "ok"
           THEN /\ SameTasks(getAllTasks, done[1].arg.tasks[1])
                /\ done[1].arg.metadata
                       = IF storageEngine = "localstorage" THEN lsMeta
                         ELSE idbMeta
           ELSE PersistedAsIn(done[1].pre)

\* C28: importData of a document without a tasks field rejects, the
\* persisted tasks and metadata are those before the call, and a later
\* getAllTasks() still succeeds.
C28_MalformedImportRejected ==
    (/\ Len(done) > 0
     /\ done[1].op = "import"
     /\ done[1].arg = MalformedDocument
     /\ done[1].pre.lsTasks # Unparseable)
        => /\ done[1].outcome = "rejected"
           /\ PersistedAsIn(done[1].pre)
           /\ LsReadable

\* In the last call the primary engine was missing or failed to open, and no
\* other storage request failed.
FellBack ==
    /\ Len(done) > 0
    /\ ~idbAvailable \/ done[1].open = "error"
    /\ ~done[1].failed
    /\ done[1].pre.lsTasks # Unparseable

\* C29: when the primary engine is missing or fails to open, initDB()
\* resolves, getAllTasks() returns the fallback engine's records, and
\* saveTask and deleteTask resolve having written the fallback engine, in
\* whatever state the adapter was, the first call included.
C29_FallbackNeverFails ==
    FellBack
        => /\ done[1].op \in {"initDB", "getAll", "save", "delete"}
                  => done[1].outcome = "ok"
           /\ done[1].op = "getAll" => done[1].result = done[1].pre.lsTasks
           /\ done[1].op = "save" => done[1].arg \in Range(lsTasks)
           /\ done[1].op = "delete" => findIndex(lsTasks, done[1].arg) = 0

\* C30: once initDB() has run, storageEngine never changes.
C30_EngineSelectionSticky ==
    [][initPc # "start" => storageEngine' = storageEngine]_vars

(***************************************************************************)
(* Properties of initStore.                                                *)
(***************************************************************************)
\* initStore has returned and no store call has been made yet.
JustLoaded == initPc = "done" /\ clock = 1 /\ Idle /\ Len(done) = 0

\* getAllTasks() rejected in initStore (initDB itself never rejects here; a
\* failed open selects localStorage).
ReadFailed == faults > 0 /\ storageEngine = "indexeddb"

\* C31: initStore always returns, with the loading flag cleared; when
\* getAllTasks() resolved the collection is what it returned, when it
\* rejected the collection is still empty.
C31_InitStoreEndsLoaded ==
    /\ <>(initPc = "done")
    /\ [](initPc = "done" => ~loading)
    /\ [](JustLoaded => tasks = IF ReadFailed THEN <<>> ELSE getAllTasks)

C31_Witness ==
    /\ JustLoaded
    /\ ReadFailed
    /\ ~loading
    /\ tasks = <<>>
    /\ Len(getAllTasks) > 0

(***************************************************************************)
(* Frame properties of the store.                                          *)
(***************************************************************************)
\* A step that keeps the collection's length keeps, position by position,
\* the id and the timeZone of every task.
KeepsIdAndTimeZone ==
    (initPc = "done" /\ Len(tasks') = Len(tasks))
        => \A i \in DOMAIN tasks :
               /\ tasks'[i].id = tasks[i].id
               /\ tasks'[i].timeZone = tasks[i].timeZone

\* C32: no update, toggleTaskCompletion, incrementPomodoro or undo changes
\* the id or the timeZone of a task of the collection.
C32_IdAndTimeZoneImmutable == [][KeepsIdAndTimeZone]_vars

\* C33: createTask resolves with a task that has an id no task had,
\* pomodoroCount 0, completed false, completedAt null, createdAt equal to
\* updatedAt, the environment's zone and order = max order + 1 (1 for an
\* empty collection), whatever the caller's data says of those fields; the
\* task is appended to the collection and one create record is pushed.
C33_CreateSetsOwnFields ==
    LastCall({"create"}, "ok")
        => LET s == done[1]
               task == s.action.task
           IN  /\ \A i \in DOMAIN s.pre : s.pre[i].id # task.id
               /\ \A i \in DOMAIN s.prePersisted :
                      s.prePersisted[i].id # task.id
               /\ task.pomodoroCount = 0
               /\ task.completed = FALSE
               /\ task.completedAt = Null
               /\ task.createdAt = task.updatedAt
               /\ task.timeZone = getUserTimeZone
               /\ task.order = maxOrder(s.pre) + 1
               /\ tasks = Append(s.pre, task)
               /\ s.action.type = "create"
               /\ undoStack = Append(s.preStack, s.action)

C33_Witness ==
    /\ LastCall({"create"}, "ok")
    /\ done[1].action.task.title = "Untitled Task"
    /\ Len(done[1].pre) > 0
    /\ done[1].action.task.order = 2
    /\ Len(done[1].preStack) > 0


(***************************************************************************)
(* Properties of the theme preference.                                     *)
(***************************************************************************)
\* loadTheme() has just returned.
ThemeLoaded == Len(themeDone) > 0 /\ themeDone[1].op = "load"

\* loadTheme() has just returned, right after a saveTheme that wrote the
\* localStorage item, and neither of its reads failed.
LoadedAfterSave ==
    /\ Len(themeDone) = 2
    /\ themeDone[1].op = "load" /\ themeDone[1].idb /\ themeDone[1].ls
    /\ themeDone[2].op = "save" /\ themeDone[2].ls

\* No valid theme is stored in either place.
NoValidTheme ==
    /\ IsNull(idbTheme) \/ ~isValidTheme(idbTheme[1])
    /\ IsNull(lsTheme) \/ ~isValidTheme(lsTheme[1])

\* C34: loadTheme() after saveTheme(t) returns t, also when the put into
\* IndexedDB failed and only the localStorage item was written while
\* IndexedDB still holds an older value; loadTheme() returns "auto" when no
\* valid value is stored in either place.
C34_ThemeRoundTrips ==
    /\ LoadedAfterSave => themeDone[1].theme = themeDone[2].theme
    /\ ThemeLoaded /\ NoValidTheme => themeDone[1].theme = "auto"


(***************************************************************************)
(* Properties of calls that overlap in time.                               *)
(***************************************************************************)
\* Two calls were in flight at once and both have completed.
Overlapped ==
    /\ Idle
    /\ Len(done) = 2
    /\ done[1].outcome = "ok"
    /\ done[2].outcome = "ok"
    /\ \/ done[2].cid \in done[1].during
       \/ done[1].cid \in done[2].during

\* Two mutations of different tasks overlapped.
OverlappingMutations ==
    /\ Overlapped
    /\ done[1].op \in Mutations
    /\ done[2].op \in Mutations
    /\ done[1].id # done[2].id

\* The collection ts shows what the completed mutation s did.
Reflects(ts, s) ==
    IF s.op = "delete" THEN findIndex(ts, s.id) = 0
    ELSE s.action.task \in Range(ts)

\* C35: once two overlapping mutations of different tasks have both
\* completed, the in-memory collection reflects both of them and holds
\* exactly the persisted tasks, with the same field values.
C35_OverlappingMutationsKept ==
    OverlappingMutations
        => /\ Reflects(tasks, done[1])
           /\ Reflects(tasks, done[2])
           /\ SameTasks(tasks, getAllTasks)


\* Two undo() calls overlapped and each replayed a record; the first of
\* them was issued while no other call was in flight and the collection
\* held the persisted tasks.
OverlappingUndos ==
    /\ Overlapped
    /\ done[1].op = "undo"
    /\ done[2].op = "undo"
    /\ \E k \in 1..2 : /\ done[k].during = {}
                       /\ SameTasks(done[k].pre, done[k].prePersisted)

\* What one undo() that runs alone makes of the collection ts.
UndoneAlone(action, ts) ==
    IF action.type = "create" THEN filterOut(ts, action.task.id)
    ELSE IF action.type = "update" /\ ~IsNull(action.previousTask)
    THEN LET index == findIndex(ts, action.previousTask[1].id)
         IN  IF index > 0 THEN [ts EXCEPT ![index] = action.previousTask[1]]
             ELSE ts
    ELSE Append(ts, action.task)

\* The collection after the two undo() calls, run one after the other.
UndoneInTurn ==
    LET first == IF done[1].cid < done[2].cid THEN done[1] ELSE done[2]
        second == IF done[1].cid < done[2].cid THEN done[2] ELSE done[1]
    IN  UndoneAlone(second.action, UndoneAlone(first.action, first.pre))

\* C36: once overlapping undo() calls have all completed, the in-memory
\* collection holds exactly the persisted tasks and equals the result of
\* running the same undo() calls one after another.
C36_OverlappingUndosAsInTurn ==
    OverlappingUndos
        => /\ SameTasks(tasks, getAllTasks)
           /\ tasks = UndoneInTurn


(***************************************************************************)
(* Properties of PomodoroTimer.                                            *)
(***************************************************************************)
\* The task the timer was opened for.
TimerTask(ts) == ts[findIndex(ts, timerTaskId)]

\* No handleTimerComplete is waiting for the store.
Settled == completing = {} /\ Idle

\* This step ends a break countdown.
BreakEnds == timerLog'.break = timerLog.break + 1

\* This step ends the handleTimerComplete of a focus countdown.
FocusHandled == completing' # completing /\ completing' \subseteq completing

\* C37: every focus countdown that reaches zero adds exactly one to the
\* task's pomodoroCount, through one undoable update, and leaves the timer
\* stopped at a 5-minute break; a break countdown that reaches zero leaves
\* the timer stopped at a 25-minute focus period and pomodoroCount as it
\* was; whatever is clicked while the increment is being persisted.
C37_CountdownCompletes ==
    /\ [](Settled => /\ TimerTask(tasks).pomodoroCount = timerLog.focus
                     /\ Len(undoStack) = timerLog.focus)
    /\ [][FocusHandled => /\ isBreak'
                          /\ timeLeft' = BREAK_DURATION
                          /\ ~isRunning']_vars
    /\ [][BreakEnds => /\ ~isBreak'
                       /\ timeLeft' = POMODORO_DURATION
                       /\ ~isRunning'
                       /\ tasks' = tasks]_vars

\* C38: at most one ticking interval exists, isRunning is true exactly
\* while it exists, timeLeft is within 0..25*60 seconds (0..5*60 in a
\* break), and pause and reset leave pomodoroCount alone.
C38_TimerInvariants ==
    /\ [](/\ Cardinality(intervals) <= 1
          /\ isRunning <=> intervals # {}
          /\ timeLeft \in 0..POMODORO_DURATION
          /\ isBreak => timeLeft \in 0..BREAK_DURATION)
    /\ [][pauseTimer \/ resetTimer
              => TimerTask(tasks').pomodoroCount
                     = TimerTask(tasks).pomodoroCount]_vars

\* The timer is running in the break that followed a counted focus period.
C38_Witness ==
    /\ isRunning
    /\ Cardinality(intervals) = 1
    /\ isBreak
    /\ timeLeft < BREAK_DURATION
    /\ TimerTask(tasks).pomodoroCount = 1

====
